---------------------------- MODULE Spec2Model ----------------------------
(***************************************************************************)
(* A model of the camera placement policy (RecordingZone), of the camera   *)
(* model and its construction (Camera, addCamera), of the annotation       *)
(* session builder (AnnotationManager, getFrameData), of the capture loop  *)
(* (extractAnnotations), of one recording (executeHorizontalMode) and of   *)
(* the runs of the recording manager (startRecording, process_comb and     *)
(* the status recovery file) of DepthHuman.                                *)
(*                                                                         *)
(* Lengths are integers in millimetres, angles integers in degrees, and    *)
(* sines and cosines integers scaled by TrigScale.  A file name is the     *)
(* sequence of the words a space separates in it.                          *)
(***************************************************************************)
EXTENDS Integers, Sequences, FiniteSets, TLC

VARIABLES
  referencePoint,  \* RecordingZone.referencePoint, <<x, y, z>>
  params,          \* RecordingZone.params, the constructor's argument
  randPars,        \* RecordingZone.randPars, a fresh RecordingZone.Params()
  zonePc,          \* "ready" | "returned" | "raised": the placement call
  zoneArgs,        \* the arguments of the placement call
  zoneErr,         \* the exception the placement call raised, or "none"
  drawn,           \* the values npy.random.uniform returned, in call order
  positions        \* the list createCameraHorizontalPosition returned

zoneVars == <<referencePoint, params, randPars, zonePc, zoneArgs, zoneErr,
              drawn, positions>>

VARIABLES
  models,          \* BaseRenderPipeline.models, the characters of the scene
  depthCamera,     \* BaseRenderPipeline.depthCamera
  root,            \* the child nodes of AnnotationManager.root
  animation,       \* the child nodes of AnnotationManager.animation
  file,            \* the document the last writeToFile wrote, or NoFile
  calls,           \* the calls made on the session so far, in order
  annErr,          \* the exception the last call raised, or "none"
  frameData        \* the Frame the last getFrameData returned, or NoFrame

annVars == <<models, depthCamera, root, animation, file, calls, annErr,
             frameData>>

VARIABLES
  cameraPars,      \* the CameraParams object of the parameter set in use
  pixelAspect,     \* scene.render.pixel_aspect_x and pixel_aspect_y
  cameraObj,       \* the local variable camera of addCamera, or NoCamera
  camPc,           \* the position addCamera is at
  camArgs,         \* the arguments of addCamera: <<cameraPosition, lookatPoint>>
  nCameras         \* the number of Camera objects constructed so far

camVars == <<cameraPars, pixelAspect, cameraObj, camPc, camArgs, nCameras>>

VARIABLES
  frameRange,      \* action.frame_range of each model's mocap sequence
  startFrame,      \* BaseRenderPipeline.startFrame
  endFrame,        \* BaseRenderPipeline.endFrame
  extractPc,       \* the position extractAnnotations is at
  nextFilesId,     \* the local variable filesId of extractAnnotations
  loopFrame        \* the loop variable f of extractAnnotations

pipeVars ==
  <<frameRange, startFrame, endFrame, extractPc, nextFilesId, loopFrame>>

VARIABLES
  sceneObjects,    \* the names of the objects in bpy.data.objects
  modePc           \* the position executeHorizontalMode is at

modeVars == <<sceneObjects, modePc>>

VARIABLES
  configParams,    \* the ImportExportParams object of the recording manager
  nbOfModels,      \* number_of_models of the scene parameters
  statusFile,      \* ./StatusRecovery.txt: whether it exists, and its lines
  modelMocapPairs, \* the local list modelMocapPairs of process_comb
  reminders,       \* the list save_processing_status wrote last
  modelFile2,      \* the second person's model file, or NoName
  mocapFile2,      \* the second person's mocap file, or NoName
  processed,       \* the pairs recorded so far, over all runs
  runPc,           \* the position the run of startRecording is at
  runErr,          \* the exception that ended the run, or "none"
  nRuns            \* the number of runs started

planVars ==
  <<configParams, nbOfModels, statusFile, modelMocapPairs, reminders,
    modelFile2, mocapFile2, processed, runPc, runErr, nRuns>>

vars == <<zoneVars, annVars, camVars, pipeVars, modeVars, planVars>>

---------------------------------------------------------------------------
(* Arithmetic helpers *)

Max(a, b) == IF a >= b THEN a ELSE b

\* _NMAX_CAMERAS
NMAX_CAMERAS == 3

\* Sines and cosines are carried as integers: value * TrigScale.
TrigScale == 1000

\* math.sin(math.radians(d)) * TrigScale for 0 <= d <= 180, by Bhaskara's
\* rational approximation (absolute error below 0.002).
SinHalfTurn(d) == (4 * TrigScale * d * (180 - d)) \div (40500 - d * (180 - d))

\* math.sin(math.radians(d)) * TrigScale, d any integer number of degrees.
Sin(d) ==
  LET r == d % 360
  IN  IF r <= 180 THEN SinHalfTurn(r) ELSE 0 - SinHalfTurn(r - 180)

\* math.cos(math.radians(d)) * TrigScale.
Cos(d) == Sin(d + 90)

\* str() of a decimal digit.
DigitStr(d) ==
  CASE d = 0 -> "0" [] d = 1 -> "1" [] d = 2 -> "2" [] d = 3 -> "3"
    [] d = 4 -> "4" [] d = 5 -> "5" [] d = 6 -> "6" [] d = 7 -> "7"
    [] d = 8 -> "8" [] d = 9 -> "9"

RECURSIVE NatStr(_)
NatStr(n) == IF n < 10 THEN DigitStr(n) ELSE NatStr(n \div 10) \o DigitStr(n % 10)

\* str() of a number.
Str(n) == IF n < 0 THEN "-" \o NatStr(0 - n) ELSE NatStr(n)

RECURSIVE JoinFrom(_, _)
JoinFrom(v, i) ==
  IF i > Len(v) THEN ""
  ELSE Str(v[i]) \o (IF i < Len(v) THEN ", " ELSE "") \o JoinFrom(v, i + 1)

\* str() of a tuple of numbers: "(0, 0, 1)".
TupleStr(v) == "(" \o JoinFrom(v, 1) \o ")"

\* The product of a matrix (a sequence of rows) and a column vector.
MatVec(m, v) ==
  [r \in 1 .. Len(m) |->
     LET row == m[r]
         Sum[k \in 0 .. Len(v)] ==
           IF k = 0 THEN 0 ELSE Sum[k - 1] + row[k] * v[k]
     IN  Sum[Len(v)]]

\* The product of two matrices.
MatMul(a, b) ==
  [r \in 1 .. Len(a) |->
     [c \in 1 .. Len(b[1]) |->
        LET Sum[k \in 0 .. Len(b)] ==
              IF k = 0 THEN 0 ELSE Sum[k - 1] + a[r][k] * b[k][c]
        IN  Sum[Len(b)]]]

---------------------------------------------------------------------------
(* RecordingZone *)

\* RecordingZone.Params(): the defaults, in millimetres.
ZoneDefaults ==
  [safeRadius      |-> 2000,
   actionZoneBegin |-> 2000,
   actionZoneEnd   |-> 6500,
   minHeight       |-> 1000,
   maxHeight       |-> 1800]

\* The points of a half-open interval that a draw is taken at, in percent of
\* the interval's length.
Fractions == {0, 99}

UniformInclusive(low, high) ==
  { low + ((high - low) * f) \div 100 : f \in Fractions \cup {100} }

\* npy.random.uniform(low, high): a value of the half-open interval
\* [low, high), and low itself when the interval is empty.
Uniform(low, high) ==
  { low + ((high - low) * f) \div 100 : f \in Fractions }

AssertAlsoLowerBound(nbOfPositions) ==
  1 <= nbOfPositions /\ nbOfPositions <= NMAX_CAMERAS

AssertOffByOne(nbOfPositions) == nbOfPositions <= NMAX_CAMERAS + 1

\* The assertion that opens createCameraHorizontalPosition.
CountAccepted(nbOfPositions) == nbOfPositions <= NMAX_CAMERAS

\* angles = [uniform(0, 120), uniform(120, 240), uniform(240, 360)]
AngleDraws ==
  { <<a0, a1, a2>> : a0 \in Uniform(0, 120), a1 \in Uniform(120, 240),
                     a2 \in Uniform(240, 360) }

CamHeightsFromParams == Uniform(params.minDimZ, params.maxDimZ)

\* camZ = uniform(randPars.minHeight, randPars.maxHeight)
CamHeights == Uniform(randPars.minHeight, randPars.maxHeight)

\* activeRadius = randPars.actionZoneEnd - randPars.safeRadius
activeRadius == randPars.actionZoneEnd - randPars.safeRadius

\* length = uniform(0, activeRadius)
Lengths == Uniform(0, activeRadius)

LookAtHeightsOfCamera(hipsHeight, neckHeight) == CamHeights

\* lookatZ = uniform(hipsHeight, neckHeight)
LookAtHeights(hipsHeight, neckHeight) == Uniform(hipsHeight, neckHeight)

\* [camX, camY, camZ]
CamPosition(angle, length, camZ) ==
  << (length * Cos(angle)) \div TrigScale + randPars.safeRadius
       + referencePoint[1],
     (length * Sin(angle)) \div TrigScale + randPars.safeRadius
       + referencePoint[2],
     camZ >>

\* The camera position and look-at point pair of one loop iteration.
Position(angle, length, camZ, lookatZ) ==
  << CamPosition(angle, length, camZ),
     <<referencePoint[1], referencePoint[2], lookatZ>> >>

\* The reference points and constructor parameters a zone is built with.
ReferencePoints == { <<0, 0, 0>>, <<300, -200, 0>> }
AirlockParams == { [minDimZ |-> 0, maxDimZ |-> 0],
                   [minDimZ |-> 2000, maxDimZ |-> 3000] }

\* The arguments of a placement call: (hipsHeight, neckHeight) with
\* hipsHeight <= neckHeight, and the requested number of positions.
HeightArgs == { <<1500, 1800>>, <<1500, 1500>> }
Counts == (0 - 1) .. (NMAX_CAMERAS + 1)

ZoneInit ==
  /\ referencePoint \in ReferencePoints
  /\ params \in AirlockParams
  /\ randPars = ZoneDefaults
  /\ zonePc = "ready"
  /\ zoneArgs = <<>>
  /\ zoneErr = "none"
  /\ drawn = <<>>
  /\ positions = <<>>

\* The list the loop over range(0, nbOfPositions) builds from the draws.
PositionList(n, angles, lengths, camZs, lookatZs) ==
  [i \in 1 .. n |-> Position(angles[i], lengths[i], camZs[i], lookatZs[i])]

\* The values drawn, in the order of the calls: the three azimuths, and then
\* camZ, length and lookatZ of each loop iteration.
DrawLog(n, angles, lengths, camZs, lookatZs) ==
  [k \in 1 .. 3 + 3 * n |->
     IF k <= 3 THEN angles[k]
     ELSE LET i == (k - 4) \div 3 + 1
              j == (k - 4) % 3
          IN  IF j = 0 THEN camZs[i]
              ELSE IF j = 1 THEN lengths[i]
              ELSE lookatZs[i]]

\* One call of createCameraHorizontalPosition.  A failing assertion samples
\* and returns nothing.  Otherwise the three azimuths are sampled and the loop
\* runs min(nbOfPositions, 3) full iterations (none for a count below 1); a
\* count above 3 that the assertion lets through ends in the IndexError of
\* angles[3].
createCameraHorizontalPosition ==
  \E h \in HeightArgs, nbOfPositions \in Counts :
    LET hipsHeight == h[1]
        neckHeight == h[2]
        n == IF nbOfPositions > 3 THEN 3 ELSE Max(nbOfPositions, 0)
    IN
    /\ zonePc = "ready"
    /\ zoneArgs' = <<hipsHeight, neckHeight, nbOfPositions>>
    /\ IF ~CountAccepted(nbOfPositions)
       THEN /\ zonePc' = "raised"
            /\ zoneErr' = "AssertionError"
            /\ UNCHANGED <<drawn, positions>>
       ELSE \E angles \in AngleDraws,
               camZs \in [1 .. n -> CamHeights],
               lengths \in [1 .. n -> Lengths],
               lookatZs \in [1 .. n -> LookAtHeights(hipsHeight, neckHeight)] :
              /\ drawn' = DrawLog(n, angles, lengths, camZs, lookatZs)
              /\ IF nbOfPositions > 3
                 THEN /\ zonePc' = "raised"
                      /\ zoneErr' = "IndexError"
                      /\ UNCHANGED positions
                 ELSE /\ zonePc' = "returned"
                      /\ zoneErr' = "none"
                      /\ positions' =
                           PositionList(n, angles, lengths, camZs, lookatZs)
    /\ UNCHANGED <<referencePoint, params, randPars>>
    /\ UNCHANGED annVars

---------------------------------------------------------------------------
(* The camera and the characters the annotations are taken from *)

\* The camera extractAnnotations finds in depthCamera: at (0, 0, 5), looking
\* down the world's -Z axis, so a point's homogeneous depth is 5 - z.  The
\* scale of the resolution is carried in percent (see ScaleUnit).
CameraK == << <<2, 0, 3>>, <<0, 2, 2>>, <<0, 0, 1>> >>
CameraR == << <<1, 0, 0>>, <<0, -1, 0>>, <<0, 0, -1>> >>
CameraT == <<0, 0, 5>>
CameraRT == [r \in 1 .. 3 |-> Append(CameraR[r], CameraT[r])]

Cameras ==
  { [par   |-> [widthpx |-> 6, heightpx |-> 4, scale |-> 100, aspectratio |-> 1,
                lensmm |-> 2, widthccdmm |-> 6, heightccdmm |-> 4],
     pos   |-> <<0, 0, 5>>,
     euler |-> <<0, 0, 0>>,
     K     |-> CameraK,
     R     |-> CameraR,
     T     |-> CameraT,
     RT    |-> CameraRT,
     P     |-> MatMul(CameraK, CameraRT),
     W     |-> << <<1, 0, 0, 0>>, <<0, 1, 0, 0>>, <<0, 0, 1, 5>>,
                  <<0, 0, 0, 1>> >>] }

\* self.depthCamera = None: the pipeline has no camera.
NoCamera == [pos |-> <<>>]

\* A Model: its id, files and colour, and its armature's pose bones in the
\* order of obj.pose.bones, each with the height its location is at.
Character(id, modelFile, mocapFile, bones) ==
  [id |-> id, modelFile |-> modelFile, mocapFile |-> mocapFile,
   materialColor |-> IF id = 1 THEN <<1, 0, 0>> ELSE <<0, 1, 0>>,
   bones |-> bones]

PoseBone(name, height) == [name |-> name, height |-> height]

\* The model lists of a pipeline (createModels gives the ids 1, 2, ...):
\* skeletons of several sizes and orders, one with bones that carry the eyes'
\* names, one with a bone in the camera's plane (homogeneous depth 0).
ModelsPlain ==
  << Character(1, "a.mhx2", "walk.bvh",
               <<PoseBone("Hips", 1), PoseBone("Neck", 2)>>) >>

ModelsTwo ==
  << Character(1, "a.mhx2", "walk.bvh",
               <<PoseBone("Neck", 2), PoseBone("Hips", 1),
                 PoseBone("Head", 3)>>),
     Character(2, "b.mhx2", "run.bvh", <<>>) >>

ModelsEyeNamed ==
  << Character(1, "b.mhx2", "run.bvh",
               <<PoseBone("Eye2", 2), PoseBone("Hips", 1),
                 PoseBone("Eye1", 2)>>) >>

ModelsInPlane ==
  << Character(1, "a.mhx2", "run.bvh",
               <<PoseBone("Hips", 1), PoseBone("Top", 5)>>) >>

ModelLists == {ModelsPlain, ModelsTwo, ModelsEyeNamed, ModelsInPlane}

\* In place of the vector a projection returns: it raised ZeroDivisionError.
ZeroDivisionError == <<>>
IsRaised(vector) == Len(vector) = 0

\* Camera.world2Image: P * wPoint (mathutils extends the 3-vector by 1),
\* divided by its third component; mathutils raises ZeroDivisionError on a
\* division of a vector by 0.  The quotients are floored to integers.
world2Image(camera, wPoint) ==
  LET pImage == MatVec(camera.P, Append(wPoint, 1))
  IN  IF pImage[3] = 0 THEN ZeroDivisionError
      ELSE <<pImage[1] \div pImage[3], pImage[2] \div pImage[3]>>

\* Camera.world2Cam: RT * wPoint.
world2Cam(camera, wPoint) == MatVec(camera.RT, Append(wPoint, 1))

\* Model.getBoneData at frame frameId: one dictionary per pose bone, in the
\* order of the armature's bones.
getBoneData(model, frameId) ==
  [b \in 1 .. Len(model.bones) |->
     LET bone == model.bones[b]
     IN  [name       |-> bone.name,
          boneLoc    |-> <<b, frameId, bone.height>>,
          boneMatrix |-> << <<1, 0, 0, b>>, <<0, 1, 0, frameId>>,
                            <<0, 0, 1, bone.height>>, <<0, 0, 0, 1>> >>,
          boneTail   |-> <<b, frameId, bone.height + 1>>,
          boneHead   |-> <<b, frameId, bone.height - 1>>]]

\* Model.get_eyes_points at frame frameId.
get_eyes_points(model, frameId) ==
  << <<0 - 1, frameId, 4>>, <<1, frameId, 4>> >>

ProjectBoneOverLocation(camera, data) ==
  [name       |-> data.name,
   boneLoc    |-> world2Cam(camera, data.boneLoc),
   boneMatrix |-> data.boneMatrix,
   boneTail   |-> data.boneTail,
   boneHead   |-> data.boneHead,
   boneLocImg |-> world2Image(camera, data.boneLoc),
   tailLocImg |-> world2Image(camera, data.boneTail),
   headLocImg |-> world2Image(camera, data.boneHead),
   boneLocCam |-> world2Cam(camera, data.boneLoc),
   tailLocCam |-> world2Cam(camera, data.boneTail),
   headLocCam |-> world2Cam(camera, data.boneHead)]

\* The loop of getFrameData over the bone dictionaries of one model: the
\* dictionary data after the six assignments data[key] = ... on it.
ProjectBone(camera, data) ==
  [name       |-> data.name,
   boneLoc    |-> data.boneLoc,
   boneMatrix |-> data.boneMatrix,
   boneTail   |-> data.boneTail,
   boneHead   |-> data.boneHead,
   boneLocImg |-> world2Image(camera, data.boneLoc),
   tailLocImg |-> world2Image(camera, data.boneTail),
   headLocImg |-> world2Image(camera, data.boneHead),
   boneLocCam |-> world2Cam(camera, data.boneLoc),
   tailLocCam |-> world2Cam(camera, data.boneTail),
   headLocCam |-> world2Cam(camera, data.boneHead)]

EyeBone(camera, name, eye) ==
  [name |-> name, boneLoc |-> eye, boneLocImg |-> world2Image(camera, eye)]

EyesSwapped(camera, boneData, eye1, eye2) ==
  boneData
    \o <<EyeBone(camera, "Eye2", eye2), EyeBone(camera, "Eye1", eye1)>>

\* boneData.append(boneEye1); boneData.append(boneEye2)
AppendEyes(camera, boneData, eye1, eye2) ==
  boneData
    \o <<EyeBone(camera, "Eye1", eye1), EyeBone(camera, "Eye2", eye2)>>

\* The Person getFrameData builds for one model.
PersonOf(camera, model, frameId) ==
  LET eyes == get_eyes_points(model, frameId)
      skeletal == getBoneData(model, frameId)
      projected == [b \in 1 .. Len(skeletal) |->
                      ProjectBone(camera, skeletal[b])]
  IN  [id            |-> model.id,
       data          |-> AppendEyes(camera, projected, eyes[1], eyes[2]),
       materialColor |-> model.materialColor,
       mocapFile     |-> model.mocapFile,
       modelFile     |-> model.modelFile]

\* Whether a projection of the person's bones raised.
ProjectionRaised(person) ==
  \E b \in 1 .. Len(person.data) :
    \/ IsRaised(person.data[b].boneLocImg)
    \/ /\ "tailLocImg" \in DOMAIN person.data[b]
       /\ \/ IsRaised(person.data[b].tailLocImg)
          \/ IsRaised(person.data[b].headLocImg)

getFrameDataReversed(modelList, camera, frameId) ==
  [id    |-> frameId,
   pList |-> [m \in 1 .. Len(modelList) |->
                PersonOf(camera, modelList[Len(modelList) + 1 - m], frameId)]]

\* BaseRenderPipeline.getFrameData: Frame(frameId, persons), the persons in
\* the order of self.models.
getFrameData(modelList, camera, frameId) ==
  [id    |-> frameId,
   pList |-> [m \in 1 .. Len(modelList) |->
                PersonOf(camera, modelList[m], frameId)]]

\* Whether getFrameData ends in the exception of one of its projections.
getFrameDataRaises(modelList, camera, frameId) ==
  \E m \in 1 .. Len(modelList) :
    ProjectionRaised(PersonOf(camera, modelList[m], frameId))

---------------------------------------------------------------------------
(* AnnotationManager *)

\* A DOM element: its tag, its attributes in the order they were set, and its
\* child nodes.
Element(tag, attrs, children) ==
  [tag |-> tag, attrs |-> attrs, children |-> children]

Attr(name, value) == <<name, value>>

\* The animation element as a child of the root: its children are those of
\* self.animation at the time the document is read.
AnimationNode == Element("animation", <<>>, <<>>)

NoFile == Element("", <<>>, <<>>)
NoFrame == [id |-> 0 - 1, pList |-> <<>>]

RECURSIVE vectorToStringFrom(_, _)
vectorToStringFrom(vector, i) ==
  IF i > Len(vector) THEN ""
  ELSE " " \o Str(vector[i]) \o vectorToStringFrom(vector, i + 1)

\* AnnotationManager.vectorToString
vectorToString(vector) == vectorToStringFrom(vector, 1)

\* AnnotationManager.genVectorNode
genVectorNode(vector, nodeName, axisNames) ==
  Element(nodeName, <<Attr("dimension", Str(Len(vector)))>>,
          [i \in 1 .. Len(vector) |->
             Element(axisNames[i], <<Attr("value", Str(vector[i]))>>, <<>>)])

ColCountAsRows(mat) == Len(mat)

\* len(mat.col): the number of columns.
ColCount(mat) == IF Len(mat) = 0 THEN 0 ELSE Len(mat[1])

\* AnnotationManager.genMatrixNode
genMatrixNode(mat, nodeName) ==
  Element(nodeName,
          <<Attr("rows", Str(Len(mat))), Attr("cols", Str(ColCount(mat)))>>,
          [i \in 1 .. Len(mat) |->
             Element("row_" \o Str(i - 1),
                     <<Attr("value", vectorToString(mat[i]))>>, <<>>)])

xyz == <<"x", "y", "z">>
xy == <<"x", "y">>

\* The files node setFileIds appends.
FilesNode(filesId, modelFileName, mocapFileName) ==
  Element("files", <<Attr("id", Str(filesId))>>,
          << Element("modelFile", <<Attr("name", modelFileName)>>, <<>>),
             Element("mocapFile", <<Attr("name", mocapFileName)>>, <<>>) >>)

\* The scenecamera node setCamera appends.
CameraNode(camera) ==
  Element("scenecamera", <<>>,
    << genVectorNode(camera.pos, "worldpos", xyz),
       genVectorNode(camera.euler, "roteuler", <<"yaw", "pitch", "roll">>),
       Element("resolution",
               << Attr("width", Str(camera.par.widthpx)),
                  Attr("height", Str(camera.par.heightpx)),
                  Attr("scale", Str(camera.par.scale)),
                  Attr("aspectratio", Str(camera.par.aspectratio)) >>, <<>>),
       Element("physical",
               << Attr("lensmm", Str(camera.par.lensmm)),
                  Attr("widthccdmm", Str(camera.par.widthccdmm)),
                  Attr("heightccdmm", Str(camera.par.heightccdmm)) >>, <<>>),
       genMatrixNode(camera.K, "calibrationmatrix"),
       genMatrixNode(camera.R, "coordrotationmatrix"),
       genVectorNode(camera.T, "translationvector", xyz),
       genMatrixNode(camera.P, "projectionmatrix"),
       genMatrixNode(camera.W, "matrixworld") >>)

BoneNodeEyeWithoutHeadTail(data) ==
  Element("bone", <<Attr("name", data.name)>>,
    IF data.name = "Eye1" \/ data.name = "Eye2"
    THEN << genVectorNode(data.boneLoc, "worldvector", xyz),
            genVectorNode(data.boneLocImg, "imagevector", xy),
            genVectorNode(data.boneLocImg, "imgtailvector", xy),
            genVectorNode(data.boneLocImg, "imgheadvector", xy) >>
    ELSE << genVectorNode(data.boneLoc, "worldvector", xyz),
            genMatrixNode(data.boneMatrix, "bonematrix"),
            genVectorNode(data.boneLocImg, "imagevector", xy),
            genVectorNode(data.boneTail, "worldtailvector", xyz),
            genVectorNode(data.tailLocImg, "imgtailvector", xy),
            genVectorNode(data.boneHead, "worldheadvector", xyz),
            genVectorNode(data.headLocImg, "imgheadvector", xy) >>)

BoneNodeMatrixLast(data) ==
  Element("bone", <<Attr("name", data.name)>>,
    IF data.name = "Eye1" \/ data.name = "Eye2"
    THEN << genVectorNode(data.boneLoc, "worldvector", xyz),
            genVectorNode(data.boneLoc, "worldheadvector", xyz),
            genVectorNode(data.boneLoc, "worldtailvector", xyz),
            genVectorNode(data.boneLocImg, "imagevector", xy),
            genVectorNode(data.boneLocImg, "imgtailvector", xy),
            genVectorNode(data.boneLocImg, "imgheadvector", xy) >>
    ELSE << genVectorNode(data.boneLoc, "worldvector", xyz),
            genVectorNode(data.boneLocImg, "imagevector", xy),
            genVectorNode(data.boneTail, "worldtailvector", xyz),
            genVectorNode(data.tailLocImg, "imgtailvector", xy),
            genVectorNode(data.boneHead, "worldheadvector", xyz),
            genVectorNode(data.headLocImg, "imgheadvector", xy),
            genMatrixNode(data.boneMatrix, "bonematrix") >>)

\* The bone node of setFrame: the eyes' branch for a dictionary named Eye1 or
\* Eye2, the joints' branch for every other one.
BoneNode(data) ==
  Element("bone", <<Attr("name", data.name)>>,
    IF data.name = "Eye1" \/ data.name = "Eye2"
    THEN << genVectorNode(data.boneLoc, "worldvector", xyz),
            genVectorNode(data.boneLoc, "worldheadvector", xyz),
            genVectorNode(data.boneLoc, "worldtailvector", xyz),
            genVectorNode(data.boneLocImg, "imagevector", xy),
            genVectorNode(data.boneLocImg, "imgtailvector", xy),
            genVectorNode(data.boneLocImg, "imgheadvector", xy) >>
    ELSE << genVectorNode(data.boneLoc, "worldvector", xyz),
            genMatrixNode(data.boneMatrix, "bonematrix"),
            genVectorNode(data.boneLocImg, "imagevector", xy),
            genVectorNode(data.boneTail, "worldtailvector", xyz),
            genVectorNode(data.tailLocImg, "imgtailvector", xy),
            genVectorNode(data.boneHead, "worldheadvector", xyz),
            genVectorNode(data.headLocImg, "imgheadvector", xy) >>)

\* The Person node of setFrame: its attributes and its one bones child.
PersonNode(person) ==
  Element("Person",
    << Attr("id", Str(person.id)),
       Attr("colormaterial", TupleStr(person.materialColor)),
       Attr("modelname", person.modelFile),
       Attr("mocapseq", person.mocapFile) >>,
    << Element("bones", <<>>,
               [b \in 1 .. Len(person.data) |-> BoneNode(person.data[b])]) >>)

FrameNodeFirstPerson(dataFrame) ==
  Element("frame", <<Attr("id", Str(dataFrame.id))>>,
          [k \in 1 .. 1 |-> PersonNode(dataFrame.pList[k])])

\* The frame node of setFrame.
FrameNode(dataFrame) ==
  Element("frame", <<Attr("id", Str(dataFrame.id))>>,
          [k \in 1 .. Len(dataFrame.pList) |-> PersonNode(dataFrame.pList[k])])

\* The number of child nodes with the tag.
CountTag(nodes, tag) ==
  Cardinality({k \in 1 .. Len(nodes) : nodes[k].tag = tag})

\* The nodes without those of the tag.
RECURSIVE WithoutTag(_, _)
WithoutTag(nodes, tag) ==
  IF nodes = <<>> THEN <<>>
  ELSE (IF Head(nodes).tag = tag THEN <<>> ELSE <<Head(nodes)>>)
         \o WithoutTag(Tail(nodes), tag)

\* AnnotationManager.setFileIds: the root's child nodes after the call.
setFileIds(filesId, modelFileName, mocapFileName) ==
  Append(root, FilesNode(filesId, modelFileName, mocapFileName))

setCameraOnce(camera) ==
  IF CountTag(root, "scenecamera") > 0 THEN root
  ELSE Append(root, CameraNode(camera))

\* AnnotationManager.setCamera: the root's child nodes after the call.
setCamera(camera) == Append(root, CameraNode(camera))

setFrameAfterCamera(dataFrame) ==
  IF CountTag(root, "scenecamera") = 0 THEN animation
  ELSE Append(animation, FrameNode(dataFrame))

\* AnnotationManager.setFrame: the animation's child nodes after the call.
setFrame(dataFrame) == Append(animation, FrameNode(dataFrame))

AppendAnimationAgain == Append(root, AnimationNode)

\* root.appendChild(self.animation): minidom first removes a node that has
\* a parent from that parent, then appends it.
AppendAnimation == Append(WithoutTag(root, "animation"), AnimationNode)

\* The document as written: the root's child nodes, the animation node with
\* the frames it holds.
Document(rootNodes, frames) ==
  Element("Annotations", <<>>,
          [k \in 1 .. Len(rootNodes) |->
             IF rootNodes[k].tag = "animation"
             THEN Element("animation", <<>>, frames)
             ELSE rootNodes[k]])

\* The calls one session is given at most.
MaxCalls == 4

\* The frame ids and file ids the calls are made with.
FrameIds == 1 .. 2
FilesIds == 1 .. 2

AnnInit ==
  /\ models \in ModelLists
  /\ depthCamera \in Cameras \cup {NoCamera}
  /\ root = <<>>
  /\ animation = <<>>
  /\ file = NoFile
  /\ calls = <<>>
  /\ annErr = "none"
  /\ frameData = NoFrame

\* annManager.setFileIds(filesId, model.modelFile, model.mocapFile)
SetFileIds ==
  /\ Len(calls) < MaxCalls
  /\ \E filesId \in FilesIds, m \in 1 .. Len(models) :
       root' = setFileIds(filesId, models[m].modelFile, models[m].mocapFile)
  /\ calls' = Append(calls, "setFileIds")
  /\ annErr' = "none"
  /\ UNCHANGED <<models, depthCamera, animation, file, frameData>>

\* annManager.setCamera(self.depthCamera)
SetCamera ==
  /\ Len(calls) < MaxCalls
  /\ root' = setCamera(depthCamera)
  /\ calls' = Append(calls, "setCamera")
  /\ annErr' = "none"
  /\ UNCHANGED <<models, depthCamera, animation, file, frameData>>

\* annManager.setFrame(self.getFrameData(f)): when getFrameData raises,
\* setFrame is not called.
SetFrame ==
  /\ Len(calls) < MaxCalls
  /\ \E f \in FrameIds :
       LET dataFrame == getFrameData(models, depthCamera, f)
       IN  IF getFrameDataRaises(models, depthCamera, f)
           THEN /\ annErr' = "ZeroDivisionError"
                /\ calls' = Append(calls, "getFrameData")
                /\ UNCHANGED <<animation, frameData>>
           ELSE /\ annErr' = "none"
                /\ calls' = Append(calls, "setFrame")
                /\ frameData' = dataFrame
                /\ animation' = setFrame(dataFrame)
  /\ UNCHANGED <<models, depthCamera, root, file>>

\* annManager.writeToFile(xmlFileName)
WriteToFile ==
  /\ Len(calls) < MaxCalls
  /\ root' = AppendAnimation
  /\ file' = Document(root', animation)
  /\ calls' = Append(calls, "writeToFile")
  /\ annErr' = "none"
  /\ UNCHANGED <<models, depthCamera, animation, frameData>>

\* What the destination holds when f.write(xmlStr) raised: open(..., "w")
\* has emptied it, and the first n child elements of the document have
\* reached it; the document is not closed.
Truncated(doc, n) ==
  [tag |-> doc.tag, attrs |-> doc.attrs,
   children |-> SubSeq(doc.children, 1, n), closed |-> FALSE]

\* The statements of writeToFile that can raise: the serialization, the
\* opening of the destination, the write.
WriteFaults == {"toprettyxml", "open", "write"}

\* The destination after writeToFile raised at the statement fault: only
\* the write comes after open(xmlFileName, "w").
WrittenBeforeFault(fault, before, doc, n) ==
  IF fault = "write" THEN Truncated(doc, n) ELSE before

\* annManager.writeToFile(xmlFileName) when one of its statements raises:
\* the animation has been appended to the root before any of them.
WriteToFileFails ==
  /\ Len(calls) < MaxCalls
  /\ root' = AppendAnimation
  /\ \E fault \in WriteFaults, n \in 0 .. Len(root') :
       /\ file' = WrittenBeforeFault(fault, file,
                                     Document(root', animation), n)
       /\ calls' = Append(calls, fault)
  /\ annErr' = "IOError"
  /\ UNCHANGED <<models, depthCamera, animation, frameData>>

---------------------------------------------------------------------------
(* Camera and HorizontalRenderPipeline.addCamera *)

\* The scale of the resolution is carried as an integer: value * ScaleUnit.
ScaleUnit == 100

\* x * scale
Scaled(x, scale) == (x * scale) \div ScaleUnit

\* The CameraParams parse_camera_params returns: the parsed fields, and the
\* defaults of aspectratio (1.0) and scale (0.5).  imgAspectRatio is an
\* attribute addCamera adds: 0 stands for its absence.  The values are such
\* that every quotient the camera computes is whole.
ParsedCameraPars ==
  { [lensmm |-> 2, widthpx |-> 32, heightpx |-> 16, widthccdmm |-> 8,
     heightccdmm |-> 18, sensorfit |-> fit, resratio |-> r,
     aspectratio |-> 1, scale |-> 50, imgAspectRatio |-> 0] :
    fit \in {"VERTICAL", "HORIZONTAL", "AUTO"}, r \in {50, 100} }

\* The pixel aspect of the scene: nothing in the program writes it.
PixelAspects == { <<1, 1>>, <<2, 1>> }

SensorParsCompounding(pars, aspect) ==
  LET a == [pars EXCEPT !.aspectratio = aspect[1] \div aspect[2],
                        !.scale = (pars.resratio * ScaleUnit) \div 100]
      b == [a EXCEPT !.imgAspectRatio = a.widthpx \div a.heightpx]
  IN  [b EXCEPT !.heightccdmm = b.heightccdmm \div b.imgAspectRatio]

\* The assignments addCamera makes to self.params.cameraPars.
SensorPars(pars, aspect) ==
  LET a == [pars EXCEPT !.aspectratio = aspect[1] \div aspect[2],
                        !.scale = (pars.resratio * ScaleUnit) \div 100]
      b == [a EXCEPT !.imgAspectRatio = a.widthpx \div a.heightpx]
  IN  [b EXCEPT !.heightccdmm = b.widthccdmm \div b.imgAspectRatio]

computeCalibrationMatrixFitSwapped(par) ==
  LET w == Scaled(par.widthpx, par.scale)
      h == Scaled(par.heightpx, par.scale)
      s_u == IF par.sensorfit = "HORIZONTAL"
             THEN (w \div par.widthccdmm) \div par.aspectratio
             ELSE w \div par.widthccdmm
      s_v == IF par.sensorfit = "HORIZONTAL"
             THEN h \div par.heightccdmm
             ELSE (h * par.aspectratio) \div par.heightccdmm
  IN  << <<par.lensmm * s_u, 0, w \div 2>>,
         <<0, par.lensmm * s_v, h \div 2>>,
         <<0, 0, 1>> >>

\* Camera.computeCalibrationMatrix: the matrix K of the intrinsics par.
computeCalibrationMatrix(par) ==
  LET w == Scaled(par.widthpx, par.scale)
      h == Scaled(par.heightpx, par.scale)
      s_u == IF par.sensorfit = "VERTICAL"
             THEN (w \div par.widthccdmm) \div par.aspectratio
             ELSE w \div par.widthccdmm
      s_v == IF par.sensorfit = "VERTICAL"
             THEN h \div par.heightccdmm
             ELSE (h * par.aspectratio) \div par.heightccdmm
      alpha_u == par.lensmm * s_u
      alpha_v == par.lensmm * s_v
      u_0 == w \div 2
      v_0 == h \div 2
      skew == 0
  IN  << <<alpha_u, skew, u_0>>, <<0, alpha_v, v_0>>, <<0, 0, 1>> >>

\* lookAtVector = self.lookatpoint - self.pos
lookAtVector(pos, lookatpoint) == [i \in 1 .. 3 |-> lookatpoint[i] - pos[i]]

\* The matrix of lookAtVector.to_track_quat('-Z', 'Y') for a vector along
\* the world's +X axis, along its +Y axis, and straight down or of length 0
\* (the unit quaternion).
TrackMatrix(vector) ==
  IF vector[1] > 0 /\ vector[2] = 0 /\ vector[3] = 0
  THEN << <<0, 0, -1>>, <<-1, 0, 0>>, <<0, 1, 0>> >>
  ELSE IF vector[1] = 0 /\ vector[2] > 0 /\ vector[3] = 0
  THEN << <<1, 0, 0>>, <<0, 0, -1>>, <<0, 1, 0>> >>
  ELSE << <<1, 0, 0>>, <<0, 1, 0>>, <<0, 0, 1>> >>

\* Camera.generateCameraRotation: the Euler angles of the rotation, in
\* degrees.
generateCameraRotation(pos, lookatpoint) ==
  LET vector == lookAtVector(pos, lookatpoint)
  IN  IF vector[1] > 0 /\ vector[2] = 0 /\ vector[3] = 0 THEN <<90, 0, -90>>
      ELSE IF vector[1] = 0 /\ vector[2] > 0 /\ vector[3] = 0 THEN <<90, 0, 0>>
      ELSE <<0, 0, 0>>

Transposed(m) == [r \in 1 .. Len(m[1]) |-> [c \in 1 .. Len(m) |-> m[c][r]]]

R_bcam2cv == << <<1, 0, 0>>, <<0, -1, 0>>, <<0, 0, -1>> >>

\* Camera.computeRotationTranslationMatrix: R, T and RT of a camera at pos
\* that looks at lookatpoint.
computeRotationTranslationMatrix(pos, lookatpoint) ==
  LET rotation == Transposed(TrackMatrix(lookAtVector(pos, lookatpoint)))
      translation == MatVec(rotation, [i \in 1 .. 3 |-> (0 - 1) * pos[i]])
      R == MatMul(R_bcam2cv, rotation)
      T == MatVec(R_bcam2cv, translation)
  IN  [R |-> R, T |-> T, RT |-> [r \in 1 .. 3 |-> Append(R[r], T[r])]]

computeCameraMatrixAtOrigin(self) ==
  LET K == computeCalibrationMatrix(cameraPars)
      rt == computeRotationTranslationMatrix(<<0, 0, 0>>, <<0, 0, 0>>)
  IN  [self EXCEPT !.K = K, !.R = rt.R, !.T = rt.T, !.RT = rt.RT,
                   !.P = MatMul(K, rt.RT)]

\* Camera.computeCameraMatrix: the camera object after the call.  self.par
\* is the CameraParams object itself, so K is computed from cameraPars.
computeCameraMatrix(self) ==
  LET K == computeCalibrationMatrix(cameraPars)
      rt == computeRotationTranslationMatrix(self.pos, self.lookatpoint)
  IN  [self EXCEPT !.K = K, !.R = rt.R, !.T = rt.T, !.RT = rt.RT,
                   !.P = MatMul(K, rt.RT)]

\* Camera.__init__: the object Camera(camParams) returns.
NewCamera ==
  computeCameraMatrix([pos |-> <<0, 0, 0>>, lookatpoint |-> <<0, 0, 0>>,
                       K |-> <<>>, R |-> <<>>, T |-> <<>>, RT |-> <<>>,
                       P |-> <<>>, W |-> <<>>])

\* scene.camera.matrix_world as the annotations read it from camera.W: the
\* matrix of the object just created at the origin, or, when the reference
\* follows the object, that of the object at its location and rotation.
WorldMatrices(self) ==
  { << <<1, 0, 0, 0>>, <<0, 1, 0, 0>>, <<0, 0, 1, 0>>, <<0, 0, 0, 1>> >>,
    LET rotation == TrackMatrix(lookAtVector(self.pos, self.lookatpoint))
    IN  [r \in 1 .. 4 |->
           IF r = 4 THEN <<0, 0, 0, 1>>
           ELSE Append(rotation[r], self.pos[r])] }

\* The camera object as a reader of its attributes sees it: par is the
\* CameraParams object.
CameraView(self, pars) ==
  [par   |-> pars,
   pos   |-> self.pos,
   lookatpoint |-> self.lookatpoint,
   euler |-> generateCameraRotation(self.pos, self.lookatpoint),
   K     |-> self.K,
   R     |-> self.R,
   T     |-> self.T,
   RT    |-> self.RT,
   P     |-> self.P,
   W     |-> self.W]

\* The camera positions and look-at points addCamera is called with.
CameraPlacements ==
  { << <<0, 0, 5>>, <<0, 0, 0>> >>,
    << <<0, -4, 0>>, <<0, 0, 0>> >>,
    << <<-3, 0, 0>>, <<0, 0, 0>> >>,
    << <<0, 0, 0>>, <<0, 0, 0>> >> }

\* The cameras constructed at most.
MaxCameras == 2

CamInit ==
  /\ cameraPars \in ParsedCameraPars
  /\ pixelAspect \in PixelAspects
  /\ cameraObj = NoCamera
  /\ camPc = "idle"
  /\ camArgs = <<>>
  /\ nCameras = 0

\* addCamera, lines 70-82: the derived fields are written to the shared
\* CameraParams object, which the pipeline's camera reads as its par.
AddCameraParams ==
  /\ camPc = "idle"
  /\ nCameras < MaxCameras
  /\ camArgs' \in CameraPlacements
  /\ cameraPars' = SensorPars(cameraPars, pixelAspect)
  /\ depthCamera' = IF depthCamera = NoCamera THEN depthCamera
                    ELSE [depthCamera EXCEPT !.par = cameraPars']
  /\ camPc' = "params"
  /\ UNCHANGED <<pixelAspect, cameraObj, nCameras>>

\* camera = Camera(self.params.cameraPars)
ConstructCamera ==
  /\ camPc = "params"
  /\ cameraObj' = NewCamera
  /\ nCameras' = nCameras + 1
  /\ camPc' = "constructed"
  /\ UNCHANGED <<cameraPars, pixelAspect, camArgs, depthCamera>>

\* camera.lookatpoint = lookatPoint
AssignLookat ==
  /\ camPc = "constructed"
  /\ cameraObj' = [cameraObj EXCEPT !.lookatpoint = camArgs[2]]
  /\ camPc' = "lookat"
  /\ UNCHANGED <<cameraPars, pixelAspect, camArgs, nCameras, depthCamera>>

\* camera.pos = cameraPosition
AssignPos ==
  /\ camPc = "lookat"
  /\ cameraObj' = [cameraObj EXCEPT !.pos = camArgs[1]]
  /\ camPc' = "pos"
  /\ UNCHANGED <<cameraPars, pixelAspect, camArgs, nCameras, depthCamera>>

\* camera.computeCameraMatrix()
RecomputeCameraMatrix ==
  /\ camPc = "pos"
  /\ cameraObj' = computeCameraMatrix(cameraObj)
  /\ camPc' = "computed"
  /\ UNCHANGED <<cameraPars, pixelAspect, camArgs, nCameras, depthCamera>>

\* The name of the camera object addCamera creates.
CameraName == "camera_1"

\* addCamera, lines 91-109: the camera object is linked to the scene,
\* camera.setBpyWorldMatrix(...) and self.depthCamera = camera.
PublishCamera ==
  /\ camPc = "computed"
  /\ sceneObjects' = sceneObjects \cup {CameraName}
  /\ \E W \in WorldMatrices(cameraObj) :
       depthCamera' = CameraView([cameraObj EXCEPT !.W = W], cameraPars)
  /\ cameraObj' = NoCamera
  /\ camPc' = "idle"
  /\ UNCHANGED <<cameraPars, pixelAspect, camArgs, nCameras>>

---------------------------------------------------------------------------
(* BaseRenderPipeline.getStartAndEndFrame and
   HorizontalRenderPipeline.extractAnnotations *)

\* Model.getStartAndEndFrame of each model: the first and last frame of its
\* mocap action.
FrameRanges == { <<0, 2>>, <<1, 3>>, <<2, 3>>, <<3, 3>> }

\* BaseRenderPipeline.getStartAndEndFrame: <<startFrame, endFrame>> after
\* the loop over the first n models.
RECURSIVE getStartAndEndFrame(_, _)
getStartAndEndFrame(ranges, n) ==
  IF n = 0 THEN <<1, 10000>>
  ELSE LET before == getStartAndEndFrame(ranges, n - 1)
           frame == ranges[n]
       IN  << IF frame[1] > before[1] THEN frame[1] ELSE before[1],
              IF frame[2] < before[2] THEN frame[2] ELSE before[2] >>

FrameLoopStopsEarly(frame, last) == frame < last

\* for f in range(self.startFrame, self.endFrame + 1, 1): whether the loop
\* has an iteration for frame.
FrameLoopContinues(frame, last) == frame < last + 1

PipeInit ==
  /\ frameRange \in [1 .. Len(models) -> FrameRanges]
  /\ startFrame = 0
  /\ endFrame = 0
  /\ extractPc = "files"
  /\ nextFilesId = 1
  /\ loopFrame = 0

\* The loop over self.models that calls setFileIds, one iteration.
ExtractSetFileIds ==
  /\ extractPc = "files"
  /\ nextFilesId <= Len(models)
  /\ root' = setFileIds(nextFilesId, models[nextFilesId].modelFile,
                        models[nextFilesId].mocapFile)
  /\ nextFilesId' = nextFilesId + 1
  /\ calls' = Append(calls, "setFileIds")
  /\ annErr' = "none"
  /\ UNCHANGED <<models, depthCamera, animation, file, frameData>>
  /\ UNCHANGED <<frameRange, startFrame, endFrame, extractPc, loopFrame>>

\* annManager.setCamera(self.depthCamera), after the loop.
ExtractSetCamera ==
  /\ extractPc = "files"
  /\ nextFilesId > Len(models)
  /\ root' = setCamera(depthCamera)
  /\ calls' = Append(calls, "setCamera")
  /\ annErr' = "none"
  /\ extractPc' = "range"
  /\ UNCHANGED <<models, depthCamera, animation, file, frameData>>
  /\ UNCHANGED <<frameRange, startFrame, endFrame, nextFilesId, loopFrame>>

\* self.getStartAndEndFrame() and the evaluation of the loop's range.
ExtractGetRange ==
  /\ extractPc = "range"
  /\ startFrame' = getStartAndEndFrame(frameRange, Len(models))[1]
  /\ endFrame' = getStartAndEndFrame(frameRange, Len(models))[2]
  /\ loopFrame' = startFrame'
  /\ extractPc' = "frames"
  /\ UNCHANGED annVars
  /\ UNCHANGED <<frameRange, nextFilesId>>

\* One iteration of the loop over the frames:
\* annManager.setFrame(self.getFrameData(f)).  An exception of getFrameData
\* ends extractAnnotations.
ExtractFrame ==
  /\ extractPc = "frames"
  /\ FrameLoopContinues(loopFrame, endFrame)
  /\ LET dataFrame == getFrameData(models, depthCamera, loopFrame)
     IN  IF getFrameDataRaises(models, depthCamera, loopFrame)
         THEN /\ annErr' = "ZeroDivisionError"
              /\ calls' = Append(calls, "getFrameData")
              /\ extractPc' = "raised"
              /\ UNCHANGED <<animation, frameData, loopFrame>>
         ELSE /\ annErr' = "none"
              /\ calls' = Append(calls, "setFrame")
              /\ frameData' = dataFrame
              /\ animation' = setFrame(dataFrame)
              /\ loopFrame' = loopFrame + 1
              /\ UNCHANGED extractPc
  /\ UNCHANGED <<models, depthCamera, root, file>>
  /\ UNCHANGED <<frameRange, startFrame, endFrame, nextFilesId>>

\* annManager.writeToFile(...), after the loop.
ExtractWrite ==
  /\ extractPc = "frames"
  /\ ~FrameLoopContinues(loopFrame, endFrame)
  /\ root' = AppendAnimation
  /\ file' = Document(root', animation)
  /\ calls' = Append(calls, "writeToFile")
  /\ annErr' = "none"
  /\ extractPc' = "done"
  /\ UNCHANGED <<models, depthCamera, animation, frameData>>
  /\ UNCHANGED <<frameRange, startFrame, endFrame, nextFilesId, loopFrame>>

---------------------------------------------------------------------------
(* RecordingPlan.executeHorizontalMode *)

\* The objects a scene holds before a run: none, or those of the run before.
Scenes == { {}, {"Cube", "Lamp", "ground"} }

\* The objects loadAndRetarget imports, one character per model.
ModelObjects == {models[m].modelFile : m \in 1 .. Len(models)}

ModeInit ==
  /\ sceneObjects \in Scenes
  /\ modePc = "reset"

\* self.renderPipe.reset_blend(): every object is selected and deleted.
ResetBlend ==
  /\ modePc = "reset"
  /\ sceneObjects' = {}
  /\ modePc' = "load"

\* self.renderPipe.loadAndRetarget(False)
LoadAndRetarget ==
  /\ modePc = "load"
  /\ sceneObjects' = sceneObjects \cup ModelObjects
  /\ modePc' = "ground"

\* airlock.createGround(10000)
CreateGround ==
  /\ modePc = "ground"
  /\ sceneObjects' = sceneObjects \cup {"ground"}
  /\ modePc' = "camera"

\* self.renderPipe.addCamera(cameraPosition, cameraName, lookatPoint), the
\* steps before the last.
ModeAddCamera ==
  /\ modePc = "camera"
  /\ \/ AddCameraParams
     \/ ConstructCamera
     \/ AssignLookat
     \/ AssignPos
     \/ RecomputeCameraMatrix
  /\ UNCHANGED modeVars

\* The last step of addCamera: the call returns.
ModeCameraAdded ==
  /\ modePc = "camera"
  /\ PublishCamera
  /\ modePc' = "extract"

\* self.renderPipe.extractAnnotations(), the steps before it ends.
ModeExtract ==
  /\ modePc = "extract"
  /\ \/ ExtractSetFileIds
     \/ ExtractSetCamera
     \/ ExtractGetRange
     \/ (ExtractFrame /\ extractPc' # "raised")
  /\ UNCHANGED modeVars

\* extractAnnotations ends: it returns after writeToFile, or the exception
\* of getFrameData leaves it and executeHorizontalMode.
ModeExtractEnds ==
  /\ modePc = "extract"
  /\ \/ (ExtractWrite /\ modePc' = "returned")
     \/ (ExtractFrame /\ extractPc' = "raised" /\ modePc' = "raised")
  /\ UNCHANGED sceneObjects

---------------------------------------------------------------------------
(* startRecording and HorizontalRecordingManager.process_comb *)

\* A file name is the sequence of its words, the parts a space separates.
NoName == <<>>

\* The lists of model files and of mocap files of a configuration.
ModelFileLists ==
  { << <<"a.mhx2">> >>, << <<"a.mhx2">>, <<"my", "b.mhx2">> >> }
MocapFileLists ==
  { << <<"walk.bvh">> >>, << <<"walk.bvh">>, <<"run.bvh">> >> }

\* number_of_models as the scene parameters file gives it.
ModelCounts == 0 .. 3

\* The file save_processing_status writes.
StatusRecoveryPath == "./StatusRecovery.txt"

NoStatusFile == [exists |-> FALSE, lines |-> <<>>]

\* itertools.product(modelFileList, mocapFileList) as a list.
product(modelFileList, mocapFileList) ==
  [k \in 1 .. Len(modelFileList) * Len(mocapFileList) |->
     << modelFileList[((k - 1) \div Len(mocapFileList)) + 1],
        mocapFileList[((k - 1) % Len(mocapFileList)) + 1] >>]

\* The lists npy.random.shuffle can leave of a list.
Shuffles(list) ==
  { [k \in 1 .. Len(list) |-> list[order[k]]] :
      order \in { o \in [1 .. Len(list) -> 1 .. Len(list)] :
                    \A i, j \in 1 .. Len(list) : o[i] = o[j] => i = j } }

\* print('%s %s' % (pair[0], pair[1]), file=file_): the words of the line,
\* and the newline print ends it with.
StatusLine(pair) == pair[1] \o pair[2] \o <<"\n">>

\* (line[0:l-1]).split(' '), and the pair (line[0], line[1]) made of it.
ParseStatusLine(line) ==
  LET words == SubSeq(line, 1, Len(line) - 1)
  IN  << <<words[1]>>, <<words[2]>> >>

\* save_processing_status: reminders, the pairs after index ii.
save_processing_status(pairs, ii) == SubSeq(pairs, ii + 2, Len(pairs))

\* The branch of recover_from_prev_run that reads the log: the pairs of its
\* lines, without the first (modelMocapPairs[1:]).
ReadStatus(lines) ==
  Tail([k \in 1 .. Len(lines) |-> ParseStatusLine(lines[k])])

\* The test of startRecording on the number of models.
InvalidModelCount(n) == n > 2 /\ n < 1

\* The index of the pair a run of process_comb records: the loop over the
\* pairs is left by the break at the end of its first iteration.
LoopIndex == 0

\* The runs of a chain at most.
MaxRuns == 2

PlanInit ==
  /\ configParams \in
       [modelFileList : ModelFileLists, mocapFileList : MocapFileLists,
        statusRecovery : {""}]
  /\ nbOfModels \in ModelCounts
  /\ statusFile = NoStatusFile
  /\ modelMocapPairs = <<>>
  /\ reminders = <<>>
  /\ modelFile2 = NoName
  /\ mocapFile2 = NoName
  /\ processed = <<>>
  /\ runPc = "start"
  /\ runErr = "none"
  /\ nRuns = 1

\* startRecording up to the construction of the recording manager.
StartRecording ==
  /\ runPc = "start"
  /\ IF InvalidModelCount(nbOfModels)
     THEN runPc' = "raised" /\ runErr' = "ValueError"
     ELSE runPc' = "manager" /\ runErr' = "none"
  /\ UNCHANGED <<configParams, nbOfModels, statusFile, modelMocapPairs,
                 reminders, modelFile2, mocapFile2, processed, nRuns>>

\* modelMocapPairs = self.recover_from_prev_run().  The test of the second
\* operand of the or reads the attribute StatusRecovery, which the
\* parameters object does not have.
RecoverFromPrevRun ==
  /\ runPc = "manager"
  /\ IF configParams.statusRecovery = ""
     THEN /\ modelMocapPairs' \in
               Shuffles(product(configParams.modelFileList,
                                configParams.mocapFileList))
          /\ runPc' = "pairs"
          /\ runErr' = "none"
     ELSE IF "StatusRecovery" \notin DOMAIN configParams
     THEN /\ runPc' = "raised"
          /\ runErr' = "AttributeError"
          /\ UNCHANGED modelMocapPairs
     ELSE IF Len(statusFile.lines) < 2
     THEN /\ runPc' = "raised"
          /\ runErr' = "IndexError"
          /\ UNCHANGED modelMocapPairs
     ELSE /\ modelMocapPairs' = ReadStatus(statusFile.lines)
          /\ runPc' = "pairs"
          /\ runErr' = "none"
  /\ UNCHANGED <<configParams, nbOfModels, statusFile, reminders,
                 modelFile2, mocapFile2, processed, nRuns>>

\* for ii in range(len(modelMocapPairs)): the loop is entered, or there is
\* no pair and process_comb returns.
EnterPairLoop ==
  /\ runPc = "pairs"
  /\ runPc' = IF Len(modelMocapPairs) = 0 THEN "ended"
              ELSE IF nbOfModels = 2 THEN "select"
              ELSE "record"
  /\ UNCHANGED <<configParams, nbOfModels, statusFile, modelMocapPairs,
                 reminders, modelFile2, mocapFile2, processed, runErr,
                 nRuns>>

\* The model file of the pair the run records.
modelFile1 == modelMocapPairs[LoopIndex + 1][1]

\* select_second_person_model_and_mocap: the first random.choice.
SelectSecondModel ==
  /\ runPc = "select"
  /\ \E k \in 1 .. Len(configParams.modelFileList) :
       modelFile2' = configParams.modelFileList[k]
  /\ runPc' = "retry"
  /\ UNCHANGED <<configParams, nbOfModels, statusFile, modelMocapPairs,
                 reminders, mocapFile2, processed, runErr, nRuns>>

\* while modelFile2 == modelFile1: another random.choice.
RetrySecondModel ==
  /\ runPc = "retry"
  /\ modelFile2 = modelFile1
  /\ \E k \in 1 .. Len(configParams.modelFileList) :
       modelFile2' = configParams.modelFileList[k]
  /\ UNCHANGED <<configParams, nbOfModels, statusFile, modelMocapPairs,
                 reminders, mocapFile2, processed, runPc, runErr, nRuns>>

\* The loop is left: mocapFile2 = random.choice(...), and the return.
SelectSecondMocap ==
  /\ runPc = "retry"
  /\ modelFile2 # modelFile1
  /\ \E k \in 1 .. Len(configParams.mocapFileList) :
       mocapFile2' = configParams.mocapFileList[k]
  /\ runPc' = "record"
  /\ UNCHANGED <<configParams, nbOfModels, statusFile, modelMocapPairs,
                 reminders, modelFile2, processed, runErr, nRuns>>

\* The loops over the camera parameter sets and the camera positions: the
\* pair is recorded.  What a recording does is what the placement, camera
\* and executeHorizontalMode actions do, each on objects of its own.
RecordPair ==
  /\ runPc = "record"
  /\ processed' = Append(processed, modelMocapPairs[LoopIndex + 1])
  /\ runPc' = "save"
  /\ UNCHANGED <<configParams, nbOfModels, statusFile, modelMocapPairs,
                 reminders, modelFile2, mocapFile2, runErr, nRuns>>

\* self.save_processing_status(modelMocapPairs, ii) and the break.
SaveProcessingStatus ==
  /\ runPc = "save"
  /\ reminders' = save_processing_status(modelMocapPairs, LoopIndex)
  /\ statusFile' =
       [exists |-> TRUE,
        lines  |-> [k \in 1 .. Len(reminders') |->
                      StatusLine(reminders'[k])]]
  /\ runPc' = "ended"
  /\ UNCHANGED <<configParams, nbOfModels, modelMocapPairs, modelFile2,
                 mocapFile2, processed, runErr, nRuns>>

\* The next run of the chain: a new process, its configuration naming the
\* log the run before wrote as the status recovery file.
NextRun ==
  /\ runPc = "ended"
  /\ statusFile.exists
  /\ nRuns < MaxRuns
  /\ nRuns' = nRuns + 1
  /\ configParams' =
       [configParams EXCEPT !.statusRecovery = StatusRecoveryPath]
  /\ modelMocapPairs' = <<>>
  /\ modelFile2' = NoName
  /\ mocapFile2' = NoName
  /\ runPc' = "start"
  /\ UNCHANGED <<nbOfModels, statusFile, reminders, processed, runErr>>

---------------------------------------------------------------------------
(* Specifications *)

\* What a step of addCamera leaves alone of the pipeline.
annSession == <<models, root, animation, file, calls, annErr, frameData>>

Init ==
  ZoneInit /\ AnnInit /\ CamInit /\ PipeInit /\ ModeInit /\ PlanInit

\* What the steps of one part leave alone of the others.
annOthers == <<zoneVars, camVars, pipeVars, modeVars, planVars>>
camOthersOfMode == <<zoneVars, annSession, pipeVars, planVars>>
camOthers == <<camOthersOfMode, modeVars>>
extractOthers == <<zoneVars, camVars, modeVars, planVars>>
modeOthers == <<zoneVars, annVars, camVars, pipeVars, planVars>>
planOthers == <<zoneVars, annVars, camVars, pipeVars, modeVars>>

NextZone ==
  createCameraHorizontalPosition
    /\ UNCHANGED <<camVars, pipeVars, modeVars, planVars>>

NextAnn ==
  \/ (SetFileIds /\ UNCHANGED annOthers)
  \/ (SetCamera /\ UNCHANGED annOthers)
  \/ (SetFrame /\ UNCHANGED annOthers)
  \/ (WriteToFile /\ UNCHANGED annOthers)

NextCam ==
  \/ (AddCameraParams /\ UNCHANGED camOthers)
  \/ (ConstructCamera /\ UNCHANGED camOthers)
  \/ (AssignLookat /\ UNCHANGED camOthers)
  \/ (AssignPos /\ UNCHANGED camOthers)
  \/ (RecomputeCameraMatrix /\ UNCHANGED camOthers)
  \/ (PublishCamera /\ UNCHANGED <<camOthersOfMode, modePc>>)

NextExtract ==
  \/ (ExtractSetFileIds /\ UNCHANGED extractOthers)
  \/ (ExtractSetCamera /\ UNCHANGED extractOthers)
  \/ (ExtractGetRange /\ UNCHANGED extractOthers)
  \/ (ExtractFrame /\ UNCHANGED extractOthers)
  \/ (ExtractWrite /\ UNCHANGED extractOthers)

\* The calls on one session when writeToFile can raise.
NextWrite ==
  \/ NextAnn
  \/ (WriteToFileFails /\ UNCHANGED annOthers)

\* One call of executeHorizontalMode.
NextMode ==
  \/ (ResetBlend /\ UNCHANGED modeOthers)
  \/ (LoadAndRetarget /\ UNCHANGED modeOthers)
  \/ (CreateGround /\ UNCHANGED modeOthers)
  \/ (ModeAddCamera /\ UNCHANGED camOthersOfMode)
  \/ (ModeCameraAdded /\ UNCHANGED camOthersOfMode)
  \/ (ModeExtract /\ UNCHANGED <<zoneVars, camVars, planVars>>)
  \/ (ModeExtractEnds /\ UNCHANGED <<zoneVars, camVars, planVars>>)

\* The runs of startRecording, chained through the status recovery file.

NextPlan ==
  \/ (StartRecording /\ UNCHANGED planOthers)
  \/ (RecoverFromPrevRun /\ UNCHANGED planOthers)
  \/ (EnterPairLoop /\ UNCHANGED planOthers)
  \/ (SelectSecondModel /\ UNCHANGED planOthers)
  \/ (RetrySecondModel /\ UNCHANGED planOthers)
  \/ (SelectSecondMocap /\ UNCHANGED planOthers)
  \/ (RecordPair /\ UNCHANGED planOthers)
  \/ (SaveProcessingStatus /\ UNCHANGED planOthers)
  \/ (NextRun /\ UNCHANGED planOthers)

Next ==
  \/ NextZone \/ NextAnn \/ NextCam \/ NextExtract \/ NextWrite
  \/ NextMode \/ NextPlan

Spec == Init /\ [][Next]_vars

\* The placement call alone, beside one pipeline.
OneZone == referencePoint = <<0, 0, 0>> /\ params.minDimZ = 0
OneCamera == cameraPars.sensorfit = "AUTO" /\ cameraPars.resratio = 100
               /\ pixelAspect = <<1, 1>>
OnePipeline == \A m \in 1 .. Len(models) : frameRange[m] = <<1, 3>>
OneScene == sceneObjects = {}
OnePlan ==
  /\ Len(configParams.modelFileList) = 1
  /\ Len(configParams.mocapFileList) = 1
  /\ nbOfModels = 1

InitZone ==
  Init /\ models = ModelsPlain /\ depthCamera \in Cameras /\ OneCamera
       /\ OnePipeline /\ OneScene /\ OnePlan

SpecZone == InitZone /\ [][NextZone]_vars

\* The calls on one annotation session alone, beside one zone.
InitAnn ==
  Init /\ OneZone /\ depthCamera \in Cameras /\ OneCamera /\ OnePipeline
       /\ OneScene /\ OnePlan

SpecAnn == InitAnn /\ [][NextAnn]_vars

\* The calls of addCamera alone, on a pipeline that has no camera yet.
InitCam ==
  Init /\ OneZone /\ models = ModelsPlain /\ depthCamera = NoCamera
       /\ OnePipeline /\ OneScene /\ OnePlan

SpecCam == InitCam /\ [][NextCam]_vars

\* The calls on one session of one character when writeToFile can raise.
InitWrite == InitAnn /\ models = ModelsPlain

SpecWrite == InitWrite /\ [][NextWrite]_vars

\* One run of extractAnnotations alone, on a pipeline that has its camera.
InitExtract ==
  Init /\ OneZone /\ depthCamera \in Cameras /\ OneCamera /\ OneScene
       /\ OnePlan

\* One call of executeHorizontalMode on a new pipeline, which has no camera.
InitMode ==
  Init /\ OneZone /\ depthCamera = NoCamera /\ OneCamera /\ OnePlan

SpecMode == InitMode /\ [][NextMode]_vars

\* The chain of runs alone, beside one zone and one pipeline.
InitPlan ==
  Init /\ OneZone /\ models = ModelsPlain /\ depthCamera = NoCamera
       /\ OneCamera /\ OnePipeline /\ OneScene

SpecPlan == InitPlan /\ [][NextPlan]_vars

\* The chain of runs when every run goes on as long as it has a step to
\* take, and a repeated random.choice does not return the same file forever.
SpecPlanFair == SpecPlan /\ WF_vars(NextPlan)

SpecExtract == InitExtract /\ [][NextExtract]_vars

---------------------------------------------------------------------------
(* Placement claims, checked under SpecZone *)

\* The placement call has ended (returned or raised).
ZoneCalled == zonePc # "ready"

\* The arguments of the ended call.
ArgHips == zoneArgs[1]
ArgNeck == zoneArgs[2]
ArgCount == zoneArgs[3]

\* The draws of loop iteration i (1-based) in the draw log.
DrawnAngle(i) == drawn[i]
DrawnCamZ(i) == drawn[3 * i + 1]
DrawnLength(i) == drawn[3 * i + 2]
DrawnLookatZ(i) == drawn[3 * i + 3]

C2_CountAboveMaxRejected ==
  (ZoneCalled /\ ArgCount > NMAX_CAMERAS) =>
    /\ zonePc = "raised"
    /\ zoneErr = "AssertionError"
    /\ drawn = <<>>
    /\ positions = <<>>

C2_Witness ==
  /\ zonePc = "raised"
  /\ ArgCount = NMAX_CAMERAS + 1
  /\ zoneErr = "AssertionError"

\* C3 as stated: a request for fewer than 1 position is rejected with an
\* error instead of returning a list.
C3_CountBelowOneRejected ==
  (ZoneCalled /\ ArgCount < 1) => (zonePc = "raised" /\ zoneErr # "none")

\* C3 as amended: a request for fewer than 1 position is accepted: the three
\* azimuths are sampled and the empty list is returned without an error; a
\* call is rejected exactly when the count is above NMAX_CAMERAS.
C3_CountBelowOneAccepted ==
  /\ (ZoneCalled /\ ArgCount < 1) =>
       /\ zonePc = "returned"
       /\ zoneErr = "none"
       /\ positions = <<>>
       /\ Len(drawn) = 3
  /\ ZoneCalled => (zonePc = "raised" <=> ArgCount > NMAX_CAMERAS)

C3_Witness ==
  /\ zonePc = "returned"
  /\ ArgCount = 0
  /\ positions = <<>>
  /\ Len(drawn) = 3

\* C4: the horizontal camera position of every pose is
\* referencePoint + (safeRadius + length) * (cos azimuth, sin azimuth).
C4_SafeRadiusAlongAzimuth ==
  zonePc = "returned" =>
    \A i \in 1 .. Len(positions) :
      LET reach == randPars.safeRadius + DrawnLength(i)
          cam == positions[i][1]
      IN  /\ cam[1] = referencePoint[1]
                        + (reach * Cos(DrawnAngle(i))) \div TrigScale
          /\ cam[2] = referencePoint[2]
                        + (reach * Sin(DrawnAngle(i))) \div TrigScale

\* The error a distance can carry from the integer sines and cosines.
TrigSlack == (2 * randPars.actionZoneEnd) \div TrigScale + 2

\* C5: every camera position lies in the annulus around the reference point:
\* its horizontal distance is at least safeRadius and at most actionZoneEnd
\* (up to TrigSlack).
C5_InsideAnnulus ==
  zonePc = "returned" =>
    \A i \in 1 .. Len(positions) :
      LET dx == positions[i][1][1] - referencePoint[1]
          dy == positions[i][1][2] - referencePoint[2]
          lo == randPars.safeRadius - TrigSlack
          hi == randPars.actionZoneEnd + TrigSlack
      IN  /\ lo * lo <= dx * dx + dy * dy
          /\ dx * dx + dy * dy <= hi * hi

\* C6: the look-at point of every pose is (referencePoint.x,
\* referencePoint.y, z) with hipsHeight <= z <= neckHeight, z being the
\* iteration's own third draw; and before the call every combination of an
\* azimuth, a camera height and a look-at height can be the first pose's, so
\* the look-at height does not depend on the other two.
C6_LookAtHeight ==
  /\ zonePc = "returned" =>
       \A i \in 1 .. Len(positions) :
         /\ positions[i][2] =
              <<referencePoint[1], referencePoint[2], DrawnLookatZ(i)>>
         /\ ArgHips <= DrawnLookatZ(i)
         /\ DrawnLookatZ(i) <= ArgNeck
  /\ zonePc = "ready" =>
       \A h \in HeightArgs, a \in Uniform(0, 120), camZ \in CamHeights :
       \A z \in Uniform(h[1], h[2]) :
         ENABLED (/\ createCameraHorizontalPosition
                  /\ zonePc' = "returned"
                  /\ zoneArgs'[1] = h[1]
                  /\ zoneArgs'[2] = h[2]
                  /\ Len(positions') >= 1
                  /\ drawn'[1] = a
                  /\ positions'[1][1][3] = camZ
                  /\ positions'[1][2][3] = z)

C6_Witness ==
  /\ zonePc = "returned"
  /\ Len(positions) = 2
  /\ ArgHips < ArgNeck
  /\ positions[1][2][3] = ArgHips
  /\ positions[2][2][3] > positions[2][1][3]
  /\ positions[1][1][3] = positions[2][1][3]

\* C7: the camera height of every pose lies in [minHeight, maxHeight] of the
\* zone's shape parameters (randPars, built by the constructor).
C7_CameraHeight ==
  zonePc = "returned" =>
    \A i \in 1 .. Len(positions) :
      /\ positions[i][1][3] = DrawnCamZ(i)
      /\ randPars.minHeight <= positions[i][1][3]
      /\ positions[i][1][3] <= randPars.maxHeight

C7_Witness ==
  /\ zonePc = "returned"
  /\ Len(positions) = 3
  /\ positions[1][1][3] = randPars.minHeight
  /\ positions[3][1][3] > randPars.minHeight
  /\ params.minDimZ > randPars.maxHeight

---------------------------------------------------------------------------
(* Annotation session claims, checked under SpecAnn *)

\* The number of calls of the operation made on the session.
CallCount(op) == Cardinality({k \in 1 .. Len(calls) : calls[k] = op})

\* The last call made on the session, "" before the first.
LastCall == IF calls = <<>> THEN "" ELSE calls[Len(calls)]

\* The scenecamera elements among the root's child nodes.
CameraCount == CountTag(root, "scenecamera")

\* The names of the bone elements of a Person element, in document order.
BoneNames(personNode) ==
  LET bones == personNode.children[1].children
  IN  [b \in 1 .. Len(bones) |-> bones[b].attrs[1][2]]

\* The names of the pose bones of a model, in the armature's order.
SkeletonNames(model) == [b \in 1 .. Len(model.bones) |-> model.bones[b].name]

\* C8 as stated: a setFrame call on a session with no camera record raises
\* and adds no frame.
C8_FrameWithoutCameraRejected ==
  (LastCall = "setFrame" /\ CameraCount = 0) =>
    (annErr # "none" /\ Len(animation) < CallCount("setFrame"))

\* C8 as amended: setFrame checks no precondition: with or without a camera
\* record on the session it raises nothing and appends the frame, so the
\* animation holds one frame element per setFrame call, the last one that of
\* the frame just passed.
C8_FrameWithoutCameraAccepted ==
  /\ Len(animation) = CallCount("setFrame")
  /\ LastCall = "setFrame" =>
       /\ annErr = "none"
       /\ animation[Len(animation)] = FrameNode(frameData)

C8_Witness ==
  /\ LastCall = "setFrame"
  /\ CameraCount = 0
  /\ CallCount("setFrame") = 2
  /\ Len(animation) = 2

\* C9 as stated: once setCamera was called the root holds exactly one
\* scenecamera element, however many calls followed.
C9_ExactlyOneCamera ==
  CallCount("setCamera") >= 1 => CameraCount = 1

\* C9 as amended: every setCamera call appends a scenecamera element, so the
\* root holds as many of them as setCamera was called: none before the first
\* call, one after a single call, two after two.
C9_OneCameraPerCall ==
  /\ CameraCount = CallCount("setCamera")
  /\ LastCall = "setCamera" => root[Len(root)] = CameraNode(depthCamera)

C9_Witness ==
  /\ CallCount("setCamera") = 2
  /\ CameraCount = 2
  /\ LastCall = "writeToFile"

\* C10: in every person record getFrameData builds, and in every serialized
\* Person, the entries are the skeleton's bones in the armature's order,
\* followed by Eye1 and then Eye2 as the last two.
C10_EyesLast ==
  /\ \A k \in 1 .. Len(frameData.pList) :
       LET data == frameData.pList[k].data
           n == Len(data)
       IN  /\ n = Len(models[k].bones) + 2
           /\ data[n - 1].name = "Eye1"
           /\ data[n].name = "Eye2"
           /\ \A b \in 1 .. n - 2 : data[b].name = models[k].bones[b].name
  /\ \A f \in 1 .. Len(animation) :
       /\ Len(animation[f].children) = Len(models)
       /\ \A k \in 1 .. Len(animation[f].children) :
            BoneNames(animation[f].children[k]) =
              SkeletonNames(models[k]) \o <<"Eye1", "Eye2">>

C10_Witness ==
  /\ Len(animation) = 2
  /\ Len(frameData.pList) = 2
  /\ BoneNames(animation[2].children[1])
       = <<"Neck", "Hips", "Head", "Eye1", "Eye2">>
  /\ BoneNames(animation[1].children[2]) = <<"Eye1", "Eye2">>

\* Whether the names of the sequence are pairwise distinct.
Distinct(names) ==
  \A i, j \in 1 .. Len(names) : i # j => names[i] # names[j]

\* The names of the entries of a person record, in list order.
RecordNames(person) == [b \in 1 .. Len(person.data) |-> person.data[b].name]

\* The tags of the child nodes of an element, in document order.
ChildTags(node) == [c \in 1 .. Len(node.children) |-> node.children[c].tag]

\* The bone elements of a Person element.
BoneElements(personNode) == personNode.children[1].children

\* C11: for a skeleton with pairwise distinct bone names, no two entries of
\* the person record and no two bone elements of the serialized Person have
\* the same name, and every skeletal bone is serialized with a bonematrix.
C11_UniqueBoneNames ==
  /\ \A k \in 1 .. Len(frameData.pList) :
       Distinct(SkeletonNames(models[k])) =>
         Distinct(RecordNames(frameData.pList[k]))
  /\ \A f \in 1 .. Len(animation) :
       \A k \in 1 .. Len(animation[f].children) :
         Distinct(SkeletonNames(models[k])) =>
           /\ Distinct(BoneNames(animation[f].children[k]))
           /\ \A b \in 1 .. Len(models[k].bones) :
                CountTag(BoneElements(animation[f].children[k])[b].children,
                         "bonematrix") = 1

\* The animation elements among the child nodes of a written document.
AnimationNodes(doc) ==
  SelectSeq(doc.children, LAMBDA node : node.tag = "animation")

\* The frame elements of a written document, in document order.
WrittenFrames(doc) == AnimationNodes(doc)[1].children

\* C12: the document just written holds one animation element with exactly
\* one frame element per appended frame; the frame element of frame id holds
\* exactly one Person element per person of that frame, and each Person one
\* bones element with exactly one bone element per bone record of the person.
C12_SerializationShape ==
  LastCall = "writeToFile" =>
    /\ Len(AnimationNodes(file)) = 1
    /\ Len(WrittenFrames(file)) = CallCount("setFrame")
    /\ CountTag(WrittenFrames(file), "frame") = CallCount("setFrame")
    /\ \A f \in 1 .. Len(WrittenFrames(file)) :
         \E id \in FrameIds :
           LET node == WrittenFrames(file)[f]
               data == getFrameData(models, depthCamera, id)
           IN  /\ node.attrs = <<Attr("id", Str(id))>>
               /\ Len(node.children) = Len(data.pList)
               /\ CountTag(node.children, "Person") = Len(data.pList)
               /\ \A k \in 1 .. Len(node.children) :
                    /\ ChildTags(node.children[k]) = <<"bones">>
                    /\ Len(BoneElements(node.children[k]))
                         = Len(data.pList[k].data)
                    /\ CountTag(BoneElements(node.children[k]), "bone")
                         = Len(data.pList[k].data)

C12_Witness ==
  /\ LastCall = "writeToFile"
  /\ CallCount("setFrame") = 2
  /\ Len(WrittenFrames(file)) = 2
  /\ Len(WrittenFrames(file)[2].children) = 2
  /\ Len(BoneElements(WrittenFrames(file)[1].children[1])) = 5
  /\ Len(BoneElements(WrittenFrames(file)[1].children[2])) = 2

\* The vector node records the vector's length and has one child per
\* component.
VectorNodeSound(vector, node) ==
  /\ node.attrs = <<Attr("dimension", Str(Len(vector)))>>
  /\ Len(node.children) = Len(vector)

\* The matrix node records the matrix's row and column counts and has one
\* child per row.
MatrixNodeSound(mat, node) ==
  /\ node.attrs = <<Attr("rows", Str(Len(mat))), Attr("cols", Str(Len(mat[1])))>>
  /\ Len(node.children) = Len(mat)
  /\ \A r \in 1 .. Len(mat) : node.children[r].tag = "row_" \o Str(r - 1)

\* The vector or matrix of the bone dictionary that a child of its bone
\* element is generated from.
BoneField(data, tag) ==
  CASE tag = "worldvector" -> data.boneLoc
    [] tag = "imagevector" -> data.boneLocImg
    [] tag = "bonematrix" -> data.boneMatrix
    [] tag = "worldtailvector" ->
         IF "boneTail" \in DOMAIN data THEN data.boneTail ELSE data.boneLoc
    [] tag = "worldheadvector" ->
         IF "boneHead" \in DOMAIN data THEN data.boneHead ELSE data.boneLoc
    [] tag = "imgtailvector" ->
         IF "tailLocImg" \in DOMAIN data THEN data.tailLocImg
         ELSE data.boneLocImg
    [] tag = "imgheadvector" ->
         IF "headLocImg" \in DOMAIN data THEN data.headLocImg
         ELSE data.boneLocImg

\* C13: in every scenecamera element and every bone element of the session,
\* each vector node has a dimension attribute equal to the length of the
\* vector it was generated from and that many children, and each matrix node
\* has rows and cols attributes equal to the matrix's row and column counts
\* and one row_i child per row.
C13_DimensionsMatch ==
  /\ \A c \in 1 .. Len(root) :
       root[c].tag = "scenecamera" =>
         LET n == root[c].children
         IN  /\ VectorNodeSound(depthCamera.pos, n[1])
             /\ VectorNodeSound(depthCamera.euler, n[2])
             /\ MatrixNodeSound(depthCamera.K, n[5])
             /\ MatrixNodeSound(depthCamera.R, n[6])
             /\ VectorNodeSound(depthCamera.T, n[7])
             /\ MatrixNodeSound(depthCamera.P, n[8])
             /\ MatrixNodeSound(depthCamera.W, n[9])
  /\ \A f \in 1 .. Len(animation) :
       \E id \in FrameIds :
         /\ animation[f].attrs = <<Attr("id", Str(id))>>
         /\ \A k \in 1 .. Len(animation[f].children) :
              LET bones == BoneElements(animation[f].children[k])
                  data == getFrameData(models, depthCamera, id).pList[k].data
              IN  \A b \in 1 .. Len(bones) :
                    \A c \in 1 .. Len(bones[b].children) :
                      LET node == bones[b].children[c]
                      IN  IF node.tag = "bonematrix"
                          THEN MatrixNodeSound(BoneField(data[b], node.tag),
                                               node)
                          ELSE VectorNodeSound(BoneField(data[b], node.tag),
                                               node)

C13_Witness ==
  /\ CameraCount = 1
  /\ Len(animation) = 1
  /\ LastCall = "setFrame"
  /\ \E c \in 1 .. Len(root) :
       /\ root[c].tag = "scenecamera"
       /\ root[c].children[8].attrs = <<Attr("rows", "3"), Attr("cols", "4")>>
       /\ root[c].children[8].children[3].attrs = <<Attr("value", " 0 0 -1 5")>>
  /\ BoneElements(animation[1].children[1])[1].children[3].attrs
       = <<Attr("dimension", "2")>>

\* The structural order of the children of a scenecamera element, of a
\* skeletal bone element and of an eye bone element.
ScenecameraOrder ==
  << "worldpos", "roteuler", "resolution", "physical", "calibrationmatrix",
     "coordrotationmatrix", "translationvector", "projectionmatrix",
     "matrixworld" >>

SkeletalOrder ==
  << "worldvector", "bonematrix", "imagevector", "worldtailvector",
     "imgtailvector", "worldheadvector", "imgheadvector" >>

EyeOrder ==
  << "worldvector", "worldheadvector", "worldtailvector", "imagevector",
     "imgtailvector", "imgheadvector" >>

\* The tags the root's children have when every call appended its node in
\* call order.
RECURSIVE TagsOfCalls(_)
TagsOfCalls(log) ==
  IF log = <<>> THEN <<>>
  ELSE (CASE Head(log) = "setFileIds" -> <<"files">>
          [] Head(log) = "setCamera" -> <<"scenecamera">>
          [] OTHER -> <<>>) \o TagsOfCalls(Tail(log))

\* The children of every scenecamera and bone element of the nodes are in
\* the structural order.
InStructuralOrder(rootNodes, frames) ==
  /\ \A c \in 1 .. Len(rootNodes) :
       rootNodes[c].tag = "scenecamera" =>
         ChildTags(rootNodes[c]) = ScenecameraOrder
  /\ \A f \in 1 .. Len(frames) :
       \A k \in 1 .. Len(frames[f].children) :
         LET bones == BoneElements(frames[f].children[k])
         IN  \A b \in 1 .. Len(bones) :
               ChildTags(bones[b]) =
                 IF bones[b].attrs[1][2] \in {"Eye1", "Eye2"}
                 THEN EyeOrder ELSE SkeletalOrder

C16_OrderPreserved ==
  /\ frameData # NoFrame =>
       /\ Len(frameData.pList) = Len(models)
       /\ \A k \in 1 .. Len(models) :
            LET person == frameData.pList[k]
                input == getBoneData(models[k], frameData.id)
            IN  /\ person.id = models[k].id
                /\ person.modelFile = models[k].modelFile
                /\ person.mocapFile = models[k].mocapFile
                /\ \A b \in 1 .. Len(input) :
                     /\ person.data[b].name = input[b].name
                     /\ person.data[b].boneLoc = input[b].boneLoc
                     /\ person.data[b].boneLocImg
                          = world2Image(depthCamera, input[b].boneLoc)
  /\ \A i \in 1 .. Len(animation) :
       /\ Len(animation[i].children) = Len(models)
       /\ \A k \in 1 .. Len(models) :
            LET node == animation[i].children[k]
            IN  /\ node.attrs[1] = Attr("id", Str(models[k].id))
                /\ node.attrs[3] = Attr("modelname", models[k].modelFile)
                /\ node.attrs[4] = Attr("mocapseq", models[k].mocapFile)
                /\ \A b \in 1 .. Len(models[k].bones) :
                     LET bone == BoneElements(node)[b]
                     IN  /\ bone.attrs = <<Attr("name", models[k].bones[b].name)>>
                         /\ bone.children[1].children[3].attrs
                              = <<Attr("value", Str(models[k].bones[b].height))>>

C16_Witness ==
  /\ models = ModelsTwo
  /\ Len(animation) = 2
  /\ animation[2].children[1].attrs[3] = Attr("modelname", "a.mhx2")
  /\ animation[2].children[2].attrs[3] = Attr("modelname", "b.mhx2")
  /\ frameData.pList[1].data[1].name = "Neck"
  /\ frameData.pList[1].data[2].name = "Hips"

\* C20: the projection of a point of homogeneous depth zero is not an
\* exceptional outcome: no getFrameData call ends in an exception, every
\* call returns a frame and the frame is appended.
C20_ZeroDepthNotExceptional ==
  /\ annErr = "none"
  /\ LastCall # "getFrameData"
  /\ Len(animation) = CallCount("setFrame") + CallCount("getFrameData")

---------------------------------------------------------------------------
(* Capture claims, checked under SpecExtract *)

\* The frame elements of the nodes carry the ids first, first + 1, ... in
\* document order.
ContiguousFrom(frames, first) ==
  \A i \in 1 .. Len(frames) :
    frames[i].attrs = <<Attr("id", Str(first + i - 1))>>

\* C15: the frame ids a capture records are, in document order,
\* startFrame, startFrame + 1, ... without a gap or a repetition and never
\* beyond endFrame; a capture that ends with the document written has
\* recorded exactly the ids of [startFrame, endFrame] (none when startFrame
\* is above endFrame), in the session and in the document.
C15_ContiguousFrameIds ==
  /\ extractPc \in {"files", "range"} => animation = <<>>
  /\ extractPc \in {"frames", "raised", "done"} =>
       /\ ContiguousFrom(animation, startFrame)
       /\ startFrame + Len(animation) - 1 <= endFrame
       /\ loopFrame = startFrame + Len(animation)
  /\ extractPc = "done" =>
       /\ Len(animation) = Max(endFrame - startFrame + 1, 0)
       /\ WrittenFrames(file) = animation

C15_Witness ==
  /\ extractPc = "done"
  /\ frameRange = << <<1, 3>>, <<2, 3>> >>
  /\ startFrame = 2
  /\ endFrame = 3
  /\ Len(animation) = 2
  /\ ContiguousFrom(WrittenFrames(file), 2)

---------------------------------------------------------------------------
(* Camera claims, checked under SpecCam *)

\* The matrices of the camera object are those of its current position,
\* look-at point and intrinsics par.
Fresh(self, par) ==
  LET rt == computeRotationTranslationMatrix(self.pos, self.lookatpoint)
  IN  /\ self.K = computeCalibrationMatrix(par)
      /\ self.R = rt.R
      /\ self.T = rt.T
      /\ self.RT = rt.RT
      /\ self.P = MatMul(self.K, self.RT)

\* C17 as stated: in every state of a Camera object, the one addCamera is
\* building and the one the pipeline holds, P equals K * RT with K, R and T
\* those of the object's current position, look-at point and intrinsics.
C17_NeverStale ==
  /\ cameraObj # NoCamera => Fresh(cameraObj, cameraPars)
  /\ depthCamera # NoCamera => Fresh(depthCamera, depthCamera.par)

\* C17 as amended: the matrices are recomputed by computeCameraMatrix only,
\* which the constructor and addCamera call.  They are those of the current
\* position, look-at point and intrinsics after the constructor, after the
\* call of addCamera, and in the camera the pipeline holds (the one
\* world2Image, world2Cam and setCamera read); between the assignments of
\* lookatpoint and pos and that call they are still the constructor's.
C17_FreshOnceComputed ==
  /\ camPc \in {"constructed", "computed"} => Fresh(cameraObj, cameraPars)
  /\ depthCamera # NoCamera =>
       /\ depthCamera.par = cameraPars
       /\ Fresh(depthCamera, depthCamera.par)
  /\ camPc \in {"lookat", "pos"} =>
       /\ cameraObj.K = NewCamera.K
       /\ cameraObj.RT = NewCamera.RT
       /\ cameraObj.P = NewCamera.P
  /\ camPc = "lookat" => cameraObj.lookatpoint = camArgs[2]
  /\ camPc = "pos" => cameraObj.pos = camArgs[1]

C17_Witness ==
  /\ camPc = "pos"
  /\ depthCamera # NoCamera
  /\ depthCamera.pos = <<0, -4, 0>>
  /\ depthCamera.P # NewCamera.P
  /\ cameraObj.pos = <<0, 0, 5>>
  /\ cameraObj.T = <<0, 0, 0>>

\* C18: once a Camera has been constructed no step changes the intrinsics
\* it reads through par: the CameraParams object keeps the value of every
\* field, also over the next addCamera, and so does the par of the camera
\* the pipeline holds.
C18_IntrinsicsImmutable ==
  [][/\ nCameras >= 1 => cameraPars' = cameraPars
     /\ (depthCamera # NoCamera /\ depthCamera' # NoCamera) =>
          /\ depthCamera.par = cameraPars
          /\ depthCamera'.par = depthCamera.par]_vars

C18_Witness ==
  /\ nCameras = 2
  /\ camPc = "constructed"
  /\ depthCamera # NoCamera
  /\ depthCamera.par.heightccdmm = 4
  /\ depthCamera.par.aspectratio = 2
  /\ depthCamera.par.scale = 100

\* The calibration matrix of the claim, for the focal length lensmm, the
\* resolution w x h in pixels times scale, the sensor size and the aspect.
ClaimedK(par) ==
  LET w == (par.widthpx * par.scale) \div ScaleUnit
      h == (par.heightpx * par.scale) \div ScaleUnit
  IN  IF par.sensorfit = "VERTICAL"
      THEN << <<par.lensmm * ((w \div par.widthccdmm) \div par.aspectratio),
                0, w \div 2>>,
              <<0, par.lensmm * (h \div par.heightccdmm), h \div 2>>,
              <<0, 0, 1>> >>
      ELSE << <<par.lensmm * (w \div par.widthccdmm), 0, w \div 2>>,
              <<0, par.lensmm * ((h * par.aspectratio) \div par.heightccdmm),
                h \div 2>>,
              <<0, 0, 1>> >>

\* C19: K of every camera is ClaimedK of its intrinsics, with skew 0; and
\* for the intrinsics of the state at pixel aspect 1 and at pixel aspect 2,
\* alpha_v doubles and alpha_u stays for the fits HORIZONTAL and AUTO, and
\* alpha_u halves and alpha_v stays for VERTICAL.
C19_CalibrationMatrix ==
  /\ cameraObj # NoCamera =>
       /\ cameraObj.K = ClaimedK(cameraPars)
       /\ cameraObj.K[1][2] = 0
  /\ depthCamera # NoCamera => depthCamera.K = ClaimedK(depthCamera.par)
  /\ LET K1 == computeCalibrationMatrix(SensorPars(cameraPars, <<1, 1>>))
         K2 == computeCalibrationMatrix(SensorPars(cameraPars, <<2, 1>>))
     IN  IF cameraPars.sensorfit = "VERTICAL"
         THEN 2 * K2[1][1] = K1[1][1] /\ K2[2][2] = K1[2][2]
         ELSE K2[2][2] = 2 * K1[2][2] /\ K2[1][1] = K1[1][1]

C19_Witness ==
  /\ cameraObj # NoCamera
  /\ cameraPars.sensorfit = "VERTICAL"
  /\ cameraPars.aspectratio = 2
  /\ cameraObj.K = << <<4, 0, 16>>, <<0, 8, 8>>, <<0, 0, 1>> >>

---------------------------------------------------------------------------
(* Projection claims, checked under SpecAnn *)

\* The keys of the dictionaries Model.getBoneData returns.
LandmarkFields == {"name", "boneLoc", "boneMatrix", "boneTail", "boneHead"}

\* The keys getFrameData assigns in each of them.
ProjectionFields ==
  {"boneLocImg", "tailLocImg", "headLocImg",
   "boneLocCam", "tailLocCam", "headLocCam"}

\* The list getBoneData returned for the m-th person of the last frame, as
\* it was returned and as getFrameData left it: the list object the Person
\* holds is the one getBoneData returned.
LandmarksGiven(m) == getBoneData(models[m], frameData.id)
LandmarksLeft(m) == frameData.pList[m].data

\* C23 as stated: the projection leaves the landmark collection it is given
\* as it was, in its length and in the fields of each record, and leaves
\* the camera as it was.
C23_InputUntouched ==
  frameData # NoFrame =>
    \A m \in 1 .. Len(frameData.pList) : LandmarksLeft(m) = LandmarksGiven(m)

\* C23 as amended: the projection leaves the camera and the value of every
\* field the landmark records came with as they were, but it works in place
\* on the collection it is given: each record has the six projection fields
\* added, and the two eye records are appended to the collection.
C23_InputExtendedInPlace ==
  /\ [](frameData # NoFrame =>
         \A m \in 1 .. Len(frameData.pList) :
           /\ Len(LandmarksLeft(m)) = Len(LandmarksGiven(m)) + 2
           /\ \A b \in 1 .. Len(LandmarksGiven(m)) :
                /\ DOMAIN LandmarksGiven(m)[b] = LandmarkFields
                /\ DOMAIN LandmarksLeft(m)[b] =
                     LandmarkFields \cup ProjectionFields
                /\ \A key \in LandmarkFields :
                     LandmarksLeft(m)[b][key] = LandmarksGiven(m)[b][key])
  /\ [][SetFrame => depthCamera' = depthCamera]_vars

C23_Witness ==
  /\ LastCall = "setFrame"
  /\ models = ModelsTwo
  /\ Len(LandmarksGiven(1)) = 3
  /\ Len(LandmarksLeft(1)) = 5
  /\ "boneLocCam" \in DOMAIN LandmarksLeft(1)[1]
  /\ "boneLocCam" \notin DOMAIN LandmarksGiven(1)[1]
  /\ LandmarksGiven(2) = <<>>
  /\ Len(LandmarksLeft(2)) = 2

---------------------------------------------------------------------------
(* Eye record claims, checked under SpecAnn *)

\* The bone elements of every frame of the session.
AllBoneElements ==
  UNION { UNION { {BoneElements(animation[i].children[p])[b] :
                     b \in 1 .. Len(BoneElements(animation[i].children[p]))} :
                  p \in 1 .. Len(animation[i].children) } :
          i \in 1 .. Len(animation) }

IsEyeElement(bone) ==
  bone.attrs[1] \in {Attr("name", "Eye1"), Attr("name", "Eye2")}

TagSet(node) == {node.children[c].tag : c \in 1 .. Len(node.children)}

\* C24 as stated: the bone element of an eye has neither a bonematrix child
\* nor the world-space head and tail vectors; every other bone element has
\* the seven children.
C24_EyeElementLocationOnly ==
  \A bone \in AllBoneElements :
    IF IsEyeElement(bone)
    THEN TagSet(bone) \cap
           {"bonematrix", "worldheadvector", "worldtailvector"} = {}
    ELSE ChildTags(bone) = SkeletalOrder

\* C24 as amended: the eye record getFrameData appends holds a name, a world
\* location and its image projection only; the bone element of a record
\* named Eye1 or Eye2 has no bonematrix child but does have worldheadvector
\* and worldtailvector children, which repeat the location as imgtailvector
\* and imgheadvector repeat its projection; every other bone element has the
\* seven children.
C24_EyeElementRepeatsLocation ==
  /\ \A bone \in AllBoneElements :
       IF IsEyeElement(bone)
       THEN /\ ChildTags(bone) = EyeOrder
            /\ \A c \in {2, 3} :
                 /\ bone.children[c].attrs = bone.children[1].attrs
                 /\ bone.children[c].children = bone.children[1].children
            /\ \A c \in {5, 6} :
                 /\ bone.children[c].attrs = bone.children[4].attrs
                 /\ bone.children[c].children = bone.children[4].children
       ELSE ChildTags(bone) = SkeletalOrder
  /\ frameData # NoFrame =>
       \A m \in 1 .. Len(frameData.pList) :
         LET data == frameData.pList[m].data
         IN  \A b \in {Len(data) - 1, Len(data)} :
               DOMAIN data[b] = {"name", "boneLoc", "boneLocImg"}

C24_Witness ==
  /\ models = ModelsPlain
  /\ Len(animation) = 1
  /\ \E bone \in AllBoneElements :
       /\ bone.attrs[1] = Attr("name", "Eye2")
       /\ ChildTags(bone) = EyeOrder
  /\ \E bone \in AllBoneElements :
       /\ bone.attrs[1] = Attr("name", "Hips")
       /\ Len(bone.children) = 7

---------------------------------------------------------------------------
(* Animation subtree claims, checked under SpecAnn *)

\* C30: after any sequence of calls the root has at most one animation
\* child (one as soon as writeToFile was called), the animation holds one
\* frame per setFrame call, each appended after those before it, a written
\* document holds them all under its one animation element, and a second
\* writeToFile with no call in between writes the same document again.
C30_OneAnimationChild ==
  /\ [](/\ CountTag(root, "animation") <= 1
        /\ CountTag(root, "animation") = 1 <=> CallCount("writeToFile") > 0
        /\ Len(animation) = CallCount("setFrame")
        /\ LastCall = "setFrame" =>
             animation[Len(animation)] = FrameNode(frameData)
        /\ LastCall = "writeToFile" =>
             /\ Len(AnimationNodes(file)) = 1
             /\ WrittenFrames(file) = animation)
  /\ [][SubSeq(animation', 1, Len(animation)) = animation]_vars
  /\ [][(LastCall = "writeToFile" /\ LastCall' = "writeToFile") =>
         file' = file]_vars

C30_Witness ==
  /\ calls = <<"setFrame", "setFrame", "writeToFile", "writeToFile">>
  /\ CountTag(root, "animation") = 1
  /\ Len(WrittenFrames(file)) = 2
  /\ WrittenFrames(file)[1] # WrittenFrames(file)[2]

---------------------------------------------------------------------------
(* Frame range claims, checked under SpecExtract *)

\* The largest first frame and the smallest last frame of the characters.
LatestFirstFrame ==
  CHOOSE a \in {frameRange[m][1] : m \in 1 .. Len(models)} :
    \A m \in 1 .. Len(models) : frameRange[m][1] <= a

EarliestLastFrame ==
  CHOOSE b \in {frameRange[m][2] : m \in 1 .. Len(models)} :
    \A m \in 1 .. Len(models) : frameRange[m][2] >= b

\* C22: the captured range is the intersection of the characters' frame
\* ranges: startFrame is the largest first frame and endFrame the smallest
\* last frame, whatever the ranges are, and a finished capture has recorded
\* exactly the frames of that intersection.
C22_IntersectionOfRanges ==
  /\ extractPc \in {"frames", "raised", "done"} =>
       /\ startFrame = LatestFirstFrame
       /\ endFrame = EarliestLastFrame
  /\ extractPc = "done" =>
       /\ Len(animation) = Max(EarliestLastFrame - LatestFirstFrame + 1, 0)
       /\ ContiguousFrom(animation, LatestFirstFrame)

---------------------------------------------------------------------------
(* Writing claims, checked under SpecWrite *)

\* C21: writing is all-or-nothing: when writeToFile raises, at whichever
\* statement, the destination holds what it held before the call or no
\* file at all, never a part of the document.
C21_AllOrNothing ==
  [][(WriteToFileFails /\ calls' # calls) =>
       (file' = file \/ file' = NoFile)]_vars


---------------------------------------------------------------------------
(* Recording plan claims, checked under SpecMode *)

\* The steps that have run so far have run in the order of the calls: the
\* camera is created in a scene that was emptied and then loaded, the
\* extraction works with the camera addCamera stored, and its calls are the
\* file references, the camera record, the frames.
StepsInOrder ==
  /\ nCameras > 0 =>
       /\ ModelObjects \cup {"ground"} \subseteq sceneObjects
       /\ sceneObjects \subseteq ModelObjects \cup {"ground", CameraName}
  /\ calls # <<>> =>
       /\ CameraName \in sceneObjects
       /\ depthCamera # NoCamera
       /\ depthCamera.pos = camArgs[1]
       /\ depthCamera.lookatpoint = camArgs[2]
       /\ Fresh(depthCamera, cameraPars)
  /\ \A i \in 1 .. Len(calls) :
       calls[i] =
         IF i <= Len(models) THEN "setFileIds"
         ELSE IF i = Len(models) + 1 THEN "setCamera"
         ELSE IF i = Len(calls) /\ modePc = "returned" THEN "writeToFile"
         ELSE IF i = Len(calls) /\ modePc = "raised" THEN "getFrameData"
         ELSE "setFrame"
  /\ \A i \in 1 .. Len(models) :
       i <= Len(calls) =>
         root[i] = FilesNode(i, models[i].modelFile, models[i].mocapFile)
  /\ CameraCount = IF Len(calls) > Len(models) THEN 1 ELSE 0
  /\ ContiguousFrom(animation, startFrame)

\* C29: the steps of every execution occur in the order reset, load, camera,
\* extraction, the calls of the extraction in the order file references,
\* camera record, frames; and every execution, when it ends, has called
\* writeToFile exactly once, after the frame of the last frame id.
C29_OrderedAndWrittenOnce ==
  /\ StepsInOrder
  /\ modePc \in {"returned", "raised"} =>
       /\ CallCount("writeToFile") = 1
       /\ LastCall = "writeToFile"
       /\ Len(animation) = Max(endFrame - startFrame + 1, 0)


---------------------------------------------------------------------------
(* Recording manager claims, checked under SpecPlan and SpecPlanFair *)

\* The pairs of the configuration, as a set.
AllPairs ==
  LET list == product(configParams.modelFileList, configParams.mocapFileList)
  IN  {list[k] : k \in 1 .. Len(list)}

\* C25: over the runs of a chain no pair is recorded twice, at the end of
\* every run the pairs recorded and the pairs left in the log are together
\* the pairs of the configuration, no run of the chain fails, and the run
\* that leaves an empty log has recorded the last pair.
C25_EveryPairOnce ==
  /\ Distinct(processed)
  /\ runPc # "raised"
  /\ runPc = "ended" =>
       /\ Len(processed) + Len(reminders) = Cardinality(AllPairs)
       /\ {(processed \o reminders)[k] :
             k \in 1 .. Len(processed) + Len(reminders)} = AllPairs
       /\ reminders = <<>> =>
             {processed[k] : k \in 1 .. Len(processed)} = AllPairs

\* C26: a run configured with the log save_processing_status wrote gets from
\* recover_from_prev_run the pairs that were written, in their order; a run
\* with no log configured gets the pairs of the configuration in some order.
C26_SaveRecoverRoundTrip ==
  /\ (configParams.statusRecovery = "" /\ runPc = "pairs") =>
       /\ Len(modelMocapPairs) = Cardinality(AllPairs)
       /\ {modelMocapPairs[k] : k \in 1 .. Len(modelMocapPairs)} = AllPairs
  /\ (configParams.statusRecovery # "" /\ runPc \notin {"start", "manager"})
       => /\ runErr = "none"
          /\ modelMocapPairs = reminders

\* C27: a number of models other than 1 or 2 is rejected with ValueError
\* before the parsers and the recording manager are created, so that no run
\* gets to process_comb with it.
C27_InvalidCountRejected ==
  nbOfModels \notin {1, 2} =>
    /\ runPc \in {"start", "raised"}
    /\ runPc = "raised" => runErr = "ValueError"

\* C28: the selection of the second person ends, whatever the list of
\* model files is, with a model file other than the first person's: at the
\* test of the retry loop some choice leaves it, and the loop is left.
C28_SelectionTerminates ==
  /\ [](runPc = "retry" =>
         \E k \in 1 .. Len(configParams.modelFileList) :
           configParams.modelFileList[k] # modelFile1)
  /\ (runPc = "select") ~> (runPc = "record" /\ modelFile2 # modelFile1)


=============================================================================
